---- MODULE Spec2Model ----
(***************************************************************************)
(* terminal-engine: the command dispatch and context-switching core.       *)
(*                                                                         *)
(*   CommandRegistry  src/core/command-registry.js                         *)
(*   ContextManager   src/core/context-manager.js                          *)
(*   EventBus         src/core/event-bus.js                                *)
(*   contexts         src/contexts/ssh-client.js, src/unnamed/part_000     *)
(*   bootstrap        src/unnamed/part_001 (TerminalApp.initialize)        *)
(*                                                                         *)
(* JavaScript runs one job at a time.  An async function runs until its    *)
(* next await; the continuation is a microtask, run in FIFO order once the *)
(* awaited promise settles.  Timers (sleep) are macrotasks, run only when  *)
(* the microtask queue is empty.  Every action below is one such job, with *)
(* all the synchronous calls it makes.                                     *)
(***************************************************************************)
EXTENDS Integers, Sequences, FiniteSets, TLC

VARIABLES
    commands,        \* CommandRegistry.commands: Map key -> command object
    nextUid,         \* number of command objects created by register so far
                     \* (for the bus client: of callbacks passed to once)
    callCount,       \* per command object: how often its handler was invoked
                     \* (for the bus client: per callback, its invocations)
    registeredEvents,\* number of command:registered events emitted
    contexts,        \* ContextManager.contexts: Map id -> context instance
    currentContext,  \* ContextManager.currentContext
    contextStack,    \* ContextManager.contextStack
    fsListener,      \* ContextManager._fsListener (the closure, by creator)
    authenticated,   \* SSHClient.authenticated
    listeners,       \* EventBus.listeners: event -> sequence of callbacks
    persisted,       \* stateManager.state.currentContext
    published,       \* notifications published by the ContextManager, in order
                     \* (for the bus client: the emits made)
    tasks,           \* invocations of async functions (execute, switchContext)
    microQ,          \* the microtask queue: tasks whose awaited promise settled
    timers,          \* tasks whose awaited promise waits for a timer
    boot,            \* position of TerminalApp.initialize
    returned         \* what the client's last register / unregister returned

vars == <<commands, nextUid, callCount, registeredEvents, contexts,
          currentContext, contextStack, fsListener, authenticated, listeners,
          persisted, published, tasks, microQ, timers, boot, returned>>

(***************************************************************************)
(* Bounds of the model.                                                    *)
(***************************************************************************)
MaxRegs == 3        \* register calls that create a command object
MaxTasks == 2       \* execute / switchContext invocations in one run
MaxCommands == 3    \* register calls of the registration client
MaxStack == 2       \* switchContext calls of the stack client's set-up
MaxFresh == 1       \* registerContext calls followed at once by switchContext
MaxOnce == 3        \* once calls of the bus client
MaxEmits == 3       \* emits after which the bus client emits no more
MaxInputs == 4      \* commands the user of an SSH session types

(***************************************************************************)
(* JavaScript values.                                                      *)
(***************************************************************************)
\* null / undefined, for a value that is otherwise a string, a number (object
\* identities count from 1) or an object
NULL == "null"
UNDEFINED == "undefined"
NoObject == 0
Undefined == [undefined |-> TRUE]

\* The params object of a switch: reading a property it lacks gives undefined.
Params(address, firstTime) == [address |-> address, firstTime |-> firstTime]
EmptyParams == Params(UNDEFINED, UNDEFINED)

\* String.prototype.toLowerCase on the names the model uses.
ToLowerCase(s) ==
    CASE s = "LS" -> "ls"
      [] s = "Ls" -> "ls"
      [] s = "DIR" -> "dir"
      [] s = "Status" -> "status"
      [] s = "HELP" -> "help"
      [] OTHER -> s

\* Map.prototype.set
MapSet(map, key, value) ==
    [k \in (DOMAIN map) \cup {key} |-> IF k = key THEN value ELSE map[k]]

\* Map.prototype.delete
MapDelete(map, key) == [k \in (DOMAIN map) \ {key} |-> map[k]]

\* Map.prototype.get: undefined when the key is absent
MapGet(map, key) == IF key \in DOMAIN map THEN map[key] ELSE NULL

EmptyMap == [k \in {} |-> NULL]

(***************************************************************************)
(* CommandRegistry                                                         *)
(***************************************************************************)

\* A command configuration is an object literal: `given` names the properties
\* it defines, the other fields hold their values.
\* register, lines 69-77: destructuring with defaults
ConfigAliases(commandConfig) ==
    IF "aliases" \in commandConfig.given THEN commandConfig.aliases ELSE <<>>

ConfigContexts(commandConfig) ==
    IF "contexts" \in commandConfig.given THEN commandConfig.contexts ELSE {"*"}

ConfigHidden(commandConfig) ==
    IF "hidden" \in commandConfig.given THEN commandConfig.hidden ELSE FALSE

\* A faulty variant: only the handler is required.
AcceptsWithoutName(commandConfig) == "execute" \in commandConfig.given

\* register, lines 79-82: if (!name || !execute) return false
RegisterAccepts(commandConfig) ==
    /\ "name" \in commandConfig.given /\ commandConfig.name # ""
    /\ "execute" \in commandConfig.given

\* register, lines 86-94: the command object; uid is its identity
NewCommand(commandConfig, uid) ==
    [uid      |-> uid,
     name     |-> commandConfig.name,
     aliases  |-> ConfigAliases(commandConfig),
     contexts |-> ConfigContexts(commandConfig),
     hidden   |-> ConfigHidden(commandConfig),
     execute  |-> commandConfig.execute]

\* register, lines 96-112: the entry under the lowercased primary name
RegisterPrimary(cmds, command) ==
    LET nameKey == ToLowerCase(command.name) IN
    IF nameKey \in DOMAIN cmds
    THEN LET existing == cmds[nameKey] IN
         IF existing.name = nameKey
         THEN cmds
         ELSE IF nameKey \notin DOMAIN cmds \/ cmds[nameKey].name # command.name
              THEN MapSet(cmds, nameKey, command)
              ELSE cmds
    ELSE MapSet(cmds, nameKey, command)

\* register, lines 115-122: aliases.forEach, never overwriting
RECURSIVE RegisterAliases(_, _, _)
RegisterAliases(cmds, command, i) ==
    IF i > Len(command.aliases)
    THEN cmds
    ELSE LET aliasKey == ToLowerCase(command.aliases[i]) IN
         RegisterAliases(
            IF aliasKey \notin DOMAIN cmds
            THEN MapSet(cmds, aliasKey, command)
            ELSE cmds,
            command, i + 1)

\* register: the map after register(commandConfig) created object uid
RegisterMap(cmds, commandConfig, uid) ==
    IF RegisterAccepts(commandConfig)
    THEN LET command == NewCommand(commandConfig, uid) IN
         RegisterAliases(RegisterPrimary(cmds, command), command, 1)
    ELSE cmds

\* unregister, lines 132-147: the map after unregister(name)
RECURSIVE DeleteAliases(_, _, _)
DeleteAliases(cmds, aliases, i) ==
    IF i > Len(aliases) THEN cmds
    ELSE DeleteAliases(MapDelete(cmds, ToLowerCase(aliases[i])), aliases, i + 1)

UnregisterFinds(cmds, name) == ToLowerCase(name) \in DOMAIN cmds

UnregisterMap(cmds, name) ==
    IF UnregisterFinds(cmds, name)
    THEN LET command == cmds[ToLowerCase(name)] IN
         DeleteAliases(MapDelete(cmds, ToLowerCase(name)), command.aliases, 1)
    ELSE cmds

\* getCommand, lines 232-234: the object under the key, or null
GetCommand(cmds, name) ==
    IF ToLowerCase(name) \in DOMAIN cmds
    THEN cmds[ToLowerCase(name)]
    ELSE Undefined



(***************************************************************************)
(* Context instances.  An instance is an object; the model names it and    *)
(* reads its properties from these tables.  A, B and M are the instances   *)
(* of the context client, with hooks of every kind (M carries an id other  *)
(* than the key it is registered under, as LocalShell does in              *)
(* src/app.js:33); P and Q are plain BaseContext instances, used by the    *)
(* registry client; the other three are the contexts of the application.   *)
(***************************************************************************)
Instances == {"A", "B", "M"}
PlainInstances == {"P", "Q"}
AppInstances == {"localShell", "bbsSystem", "sshClient"}

\* BaseContext constructor (id, name, type): the super(...) calls
InstanceId(context) ==
    CASE context = "A" -> "a"
      [] context = "B" -> "b"
      [] context = "M" -> "m"
      [] context = "P" -> "p"
      [] context = "Q" -> "q"
      [] context = "localShell" -> "localhost"
      [] context = "bbsSystem" -> "bbs"
      [] context = "sshClient" -> "ssh"
      [] OTHER -> UNDEFINED

InstanceType(context) ==
    CASE context = "A" -> "local"
      [] context = "B" -> "bbs"
      [] context = "M" -> "ssh"
      [] context = "P" -> "local"
      [] context = "Q" -> "bbs"
      [] context = "localShell" -> "local"
      [] context = "bbsSystem" -> "bbs"
      [] context = "sshClient" -> "ssh"
      [] OTHER -> UNDEFINED

\* getPrompt(): the prompt is derived from the instance it is asked of
GetPrompt(context) == <<"prompt of", context>>

\* Faulty variants of the eligibility rule: one that reads every context as
\* a local one, one that knows no wildcard.
AvailableAsLocal(command, context) ==
    "*" \in command.contexts \/ "local" \in command.contexts

AvailableByTypeOnly(command, context) ==
    (IF InstanceType(context) = UNDEFINED
     THEN "local"
     ELSE InstanceType(context)) \in command.contexts

\* A faulty variant that reads an empty contexts list as no restriction.
AvailableWhenEmpty(command, context) ==
    IF "*" \in command.contexts \/ command.contexts = {}
    THEN TRUE
    ELSE (IF InstanceType(context) = UNDEFINED
          THEN "local"
          ELSE InstanceType(context)) \in command.contexts

\* isAvailableInContext, lines 195-201; context is an instance or null.
\* register never stores a command without a contexts list (line 72).
IsAvailableInContext(command, context) ==
    IF "*" \in command.contexts
    THEN TRUE
    ELSE (IF InstanceType(context) = UNDEFINED
          THEN "local"
          ELSE InstanceType(context)) \in command.contexts

\* Array.prototype.sort() on names: by UTF-16 code units.  The names the
\* clients and the contexts of the application register, in that order.
CodeUnitOrder ==
    <<"1", "2", "3", "4", "LS", "auth", "boom", "cat", "cd", "clear", "cls",
      "cowsay", "dir", "disconnect", "download", "echo", "exit", "files",
      "find", "ghost", "go", "grep", "hack", "help", "history", "info",
      "initiate", "inv", "inventory", "list", "load", "login", "logout", "ls",
      "matrix", "menu", "messages", "mkdir", "nohandler", "off", "pwd",
      "read", "rm", "save", "scan", "secret", "ssh", "status", "telnet",
      "users">>

Rank(name) == CHOOSE i \in DOMAIN CodeUnitOrder : CodeUnitOrder[i] = name

Sort(names) ==
    LET Listed(name) == name \in names IN SelectSeq(CodeUnitOrder, Listed)

\* A faulty variant that lists the hidden commands too.
AvailableWithHidden(cmds, context) ==
    Sort({ name \in DOMAIN cmds :
             /\ ~(cmds[name].name # name)
             /\ IsAvailableInContext(cmds[name], context) })

\* getAvailableCommands, lines 208-225; the order in which the entries of the
\* map are visited is lost in the sort.
GetAvailableCommands(cmds, context) ==
    Sort({ name \in DOMAIN cmds :
             /\ ~(cmds[name].name # name)
             /\ ~cmds[name].hidden
             /\ IsAvailableInContext(cmds[name], context) })

(***************************************************************************)
(* Results (the objects execute resolves to)                               *)
(***************************************************************************)
\* execute, lines 161-164
NotFoundResult(name) ==
    [success |-> FALSE, output |-> UNDEFINED, src |-> NoObject,
     error |-> <<"Command not found: ", name>>]

\* execute, lines 169-172
NotAvailableResult(name) ==
    [success |-> FALSE, output |-> UNDEFINED, src |-> NoObject,
     error |-> <<"Command '", name, "' is not available in this context.">>]

\* execute, lines 182-185: `Error: ${error.message}`
FaultResult(message) ==
    [success |-> FALSE, output |-> UNDEFINED, src |-> NoObject,
     error |-> <<"Error: ", message>>]

\* execute, line 179: result || { success: true }
BareSuccess ==
    [success |-> TRUE, output |-> UNDEFINED, src |-> NoObject, error |-> <<>>]

\* What the handlers return or throw; src tells whose Result object it is.
HandlerSuccess(uid) ==
    [success |-> TRUE, output |-> "output", src |-> uid, error |-> <<>>]
HandlerFailure(uid) ==
    [success |-> FALSE, output |-> UNDEFINED, src |-> uid,
     error |-> <<"handler failure">>]
\* return { success: true }
HandlerOk(uid) ==
    [success |-> TRUE, output |-> UNDEFINED, src |-> uid, error |-> <<>>]
HandlerMessage == "handler fault"
\* SSHClient: the Result of a guarded command without authentication
\* (ssh-client.js lines 216-221, 239-244, 280-285, 323-328, 352-357) and of
\* auth with a wrong password (lines 206-212)
PermissionDenied(uid, fn) ==
    [success |-> FALSE, output |-> UNDEFINED, src |-> uid,
     error |-> IF fn = "cmdLs"
               THEN <<"Permission denied. Authentication required.">>
               ELSE <<"Permission denied.">>]
AccessDenied(uid) ==
    [success |-> FALSE, output |-> UNDEFINED, src |-> uid,
     error |-> <<"Authentication failed. Access denied.">>]

(***************************************************************************)
(* The job queue: invocations of async functions                           *)
(***************************************************************************)
\* The invocations one run holds are bounded.  The context client counts
\* every invocation, because its hooks can ask for switches without end, and
\* the stack client every one after its set-up; the others count the
\* invocations that the client or the user starts, not those of the set-up
\* nor those that the context:switch listener starts.
Counted(by) ==
    \/ boot = "client"
    \/ boot = "stack" /\ by # "setup"
    \/ by \in {"client", "input"}

CanStart(m, by) ==
    Counted(by) =>
        Cardinality({ t \in DOMAIN m.tasks : Counted(m.tasks[t].by) }) < MaxTasks

\* One invocation of CommandRegistry.execute, ContextManager.switchContext
\* or ContextManager.popContext.
\*   pc       where the invocation stands: "handler", "onExit", "onEnter"
\*            (awaiting that call), "returned" or "rejected"
\*   awaited  state of the awaited promise: "pending", "fulfilled", "rejected"
\*   value    what the awaited promise is fulfilled with
\*   then     what the awaited function does once its timer has fired
\*   pushed   what the invocation has pushed onto contextStack
BlankTask ==
    [kind |-> NULL, by |-> NULL, pc |-> NULL, awaited |-> NULL,
     value |-> Undefined, then |-> <<>>, result |-> Undefined,
     name |-> NULL, args |-> <<>>, context |-> NULL, command |-> NoObject,
     handlerCalls |-> <<>>,
     contextId |-> NULL, params |-> Undefined, newContext |-> NULL,
     outgoing |-> NULL, onExitState |-> "none", onEnterState |-> "none",
     enterArgs |-> <<>>, afterRegister |-> NULL, pushed |-> <<>>,
     stackAtCall |-> <<>>]

\* The mutable state a job works on.
Machine ==
    [tasks |-> tasks, microQ |-> microQ, timers |-> timers,
     contexts |-> contexts, currentContext |-> currentContext, contextStack |-> contextStack,
     fsListener |-> fsListener, listeners |-> listeners,
     authenticated |-> authenticated,
     persisted |-> persisted, published |-> published,
     callCount |-> callCount, ok |-> TRUE]

Commit(m) ==
    /\ tasks' = m.tasks
    /\ microQ' = m.microQ
    /\ timers' = m.timers
    /\ contexts' = m.contexts
    /\ currentContext' = m.currentContext
    /\ contextStack' = m.contextStack
    /\ fsListener' = m.fsListener
    /\ authenticated' = m.authenticated
    /\ listeners' = m.listeners
    /\ persisted' = m.persisted
    /\ published' = m.published
    /\ callCount' = m.callCount

\* `await p` on a promise that is already settled: the continuation is queued
AwaitSettled(m, t) == [m EXCEPT !.microQ = Append(@, t)]

\* `await p` on a promise that waits for setTimeout
AwaitTimer(m, t) == [m EXCEPT !.timers = @ \cup {t}]

(***************************************************************************)
(* EventBus                                                                *)
(***************************************************************************)
\* on, lines 17-25
On(ls, event, callback) == [ls EXCEPT ![event] = Append(@, callback)]

\* off, lines 32-40: indexOf + splice removes the first occurrence
RECURSIVE IndexOf(_, _, _)
IndexOf(seq, x, i) ==
    IF i > Len(seq) THEN 0
    ELSE IF seq[i] = x THEN i ELSE IndexOf(seq, x, i + 1)

Splice(seq, i) == SubSeq(seq, 1, i - 1) \o SubSeq(seq, i + 1, Len(seq))

Off(ls, event, callback) ==
    LET index == IndexOf(ls[event], callback, 1) IN
    IF index > 0 THEN [ls EXCEPT ![event] = Splice(@, index)] ELSE ls

\* The callbacks a client passes to once: one that returns, one that throws,
\* one that emits the event again the first time it runs.
CallbackKinds == {"returns", "throws", "emits"}

\* once, lines 65-71: the wrappedCallback that once subscribes for cb
WrappedCallback(uid, cb) == [fn |-> "wrappedCallback", of |-> uid, cb |-> cb]

\* once(event, callback), lines 65-71
Once(ls, event, uid, cb) == On(ls, event, WrappedCallback(uid, cb))

RECURSIVE Emit(_, _)
RECURSIVE ForEach(_, _, _, _)

\* wrappedCallback, lines 66-69: `callback(data); this.off(event, wrappedCallback)`.
\* b holds the listeners, the calls each callback has had and the emits made.
\* A callback that throws leaves the wrapper before off is reached.
CallWrapped(b, event, wrapped) ==
    LET b1 == [b EXCEPT !.callCount[wrapped.of] = @ + 1] IN
    CASE wrapped.cb = "throws" -> b1
      [] wrapped.cb = "emits" /\ b1.callCount[wrapped.of] = 1 ->
            [Emit(b1, event) EXCEPT !.listeners = Off(@, event, wrapped)]
      [] OTHER -> [b1 EXCEPT !.listeners = Off(@, event, wrapped)]

\* emit, lines 50-56: callbacks.forEach with try / catch around each call.
\* forEach visits the indices below the length the array had at the start
\* and reads the array as it is when it comes to an index.
ForEach(b, event, k, len) ==
    IF k > len THEN b
    ELSE IF k > Len(b.listeners[event]) THEN ForEach(b, event, k + 1, len)
    ELSE ForEach(CallWrapped(b, event, b.listeners[event][k]),
                 event, k + 1, len)

\* emit(event, data), lines 47-58
Emit(b, event) ==
    ForEach([b EXCEPT !.published = Append(@, [event |-> event])],
            event, 1, Len(b.listeners[event]))

\* The callbacks the core subscribes.
SwitchListener == [fn |-> "context:switch listener", of |-> NoObject]
FsListener(t) == [fn |-> "_fsListener", of |-> t]


(***************************************************************************)
(* Bodies of async functions.  A hook or a handler is a script: the steps  *)
(* it takes, in order.  It runs until a step that suspends it.             *)
(*   [op |-> "tick"]    await of a promise that is already settled         *)
(*   [op |-> "sleep"]   await of a timer (sleep, setTimeout)               *)
(*   [op |-> "switch"]  eventBus.emit('context:switch', {contextId,params})*)
(*   [op |-> "cd"]      filesystem.changeDirectory(path), path a directory *)
(*   [op |-> "authenticate"]  this.authenticated = true (SSHClient)        *)
(*   [op |-> "throw"]   throw new Error(HandlerMessage)                    *)
(*   [op |-> "return"]  return value                                       *)
(* The end of the script is `return undefined`.                            *)
(***************************************************************************)
Tick == [op |-> "tick"]
Sleep == [op |-> "sleep"]
Throw == [op |-> "throw"]
Return(value) == [op |-> "return", value |-> value]
EmitSwitch(contextId, params) ==
    [op |-> "switch", contextId |-> contextId, params |-> params]
ChangeDirectory == [op |-> "cd"]
\* this.authenticated = true, ssh-client.js lines 79 and 191
Authenticate == [op |-> "authenticate"]

\* The callback _fsListener, context-manager.js lines 86-97: what it
\* publishes.  `this.currentContext?.id` and `getPrompt?.() || ''` with no
\* context active are undefined and the empty string (written <<>>).
FsListenerEvent(m) ==
    [event |-> "context:changed",
     contextId |-> InstanceId(m.currentContext),
     prompt |-> IF m.currentContext = NULL
                THEN <<>>
                ELSE GetPrompt(m.currentContext),
     context |-> m.currentContext]

\* FileSystem.changeDirectory, part_001 lines 738-748, for a path that is a
\* directory: eventBus.emit('filesystem:directory-changed', ...) calls every
\* subscribed callback (event-bus.js lines 47-58), each one an _fsListener.
EmitDirectoryChanged(m) ==
    [m EXCEPT !.published =
        @ \o [i \in DOMAIN m.listeners["filesystem:directory-changed"]
                |-> FsListenerEvent(m)]]

\* The awaited promise of task t settles; the continuation of t is queued.
Settle(m, t, how, value) ==
    LET task == m.tasks[t]
        state == IF how = "fulfilled" THEN "resolved" ELSE "rejected" IN
    [m EXCEPT !.tasks[t] =
                 [task EXCEPT !.awaited = how, !.value = value, !.then = <<>>,
                     !.onExitState = IF task.pc = "onExit" THEN state ELSE @,
                     !.onEnterState = IF task.pc = "onEnter" THEN state ELSE @],
              !.microQ = Append(@, t)]

RECURSIVE RunScript(_, _, _, _, _)
RECURSIVE EmitContextSwitch(_, _, _, _, _, _)
RECURSIVE SwitchContext(_, _, _, _, _, _, _)
RECURSIVE EnterContext(_, _, _, _)
RECURSIVE LeaveContext(_, _, _, _)

\* Run the awaited function of task t from `script` on, until it suspends
\* or settles.  es and xs are the bodies of the onEnter and onExit hooks that
\* a switchContext started from here will call.
RunScript(m, t, script, es, xs) ==
    IF ~m.ok THEN m
    ELSE IF script = <<>> THEN Settle(m, t, "fulfilled", Undefined)
    ELSE LET step == Head(script)
             rest == Tail(script) IN
         CASE step.op = "tick" ->
                AwaitSettled([m EXCEPT !.tasks[t].then = rest], t)
           [] step.op = "sleep" ->
                AwaitTimer([m EXCEPT !.tasks[t].then = rest], t)
           [] step.op = "throw" ->
                Settle(m, t, "rejected", Undefined)
           [] step.op = "return" ->
                Settle(m, t, "fulfilled", step.value)
           [] step.op = "cd" ->
                RunScript(EmitDirectoryChanged(m), t, rest, es, xs)
           [] step.op = "authenticate" ->
                RunScript([m EXCEPT !.authenticated = TRUE], t, rest, es, xs)
           [] step.op = "switch" ->
                RunScript(EmitContextSwitch(m, 1, step.contextId, step.params,
                                            es, xs),
                          t, rest, es, xs)

(***************************************************************************)
(* ContextManager                                                          *)
(***************************************************************************)
\* Bodies of the hooks of the generic client's instances: an onExit that
\* resolves at once, takes time, or throws; an onEnter that does the same or
\* asks for another switch (as SSHClient.onEnter does, lines 46-61).
SwitchTargets == {"a"}

ExitScripts == { <<>>, <<Sleep>>, <<Throw>> }

EnterScripts ==
    { <<>>, <<Sleep>>, <<Throw>> }
    \cup { <<EmitSwitch(id, EmptyParams)>> : id \in SwitchTargets }
    \cup { <<Sleep, EmitSwitch(id, EmptyParams)>> : id \in SwitchTargets }

\* BaseContext (contexts/base-context.js): onEnter(params) keeps the params,
\* onExit() does nothing; neither awaits.
BaseOnEnter == <<>>
BaseOnExit == <<>>

\* `await super.onEnter(params)`: the promise is settled when it is awaited
AwaitSuper == BaseOnEnter \o <<Tick>>

\* The hosts SSHClient.onEnter knows, lines 37-42; research-facility.secure
\* is accessible or not, by a flag of the game.
KnownHosts ==
    {"mainframe.local", "research-facility.secure", "data-vault.secure",
     "192.168.1.10"}

\* A faulty variant: a refused connection stays in the ssh context.
SshRefusalStays(params) == { AwaitSuper \o <<Sleep, Sleep>> }

\* SSHClient.onEnter, lines 25-84, by the host that params.address names
SshEnterScripts(params) ==
    LET refused  == AwaitSuper \o
                    <<Sleep, Sleep, EmitSwitch("localhost", EmptyParams)>>
        needAuth == AwaitSuper \o <<Sleep, Sleep>>
        open     == AwaitSuper \o <<Sleep, Authenticate, Tick>> IN
    CASE params.address = "mainframe.local" -> {needAuth}
      [] params.address = "data-vault.secure" -> {needAuth}
      [] params.address = "research-facility.secure" -> {needAuth, refused}
      [] params.address = "192.168.1.10" -> {open}
      [] OTHER -> {refused}

\* BBSSystem.onEnter, part_000 lines 24-55
BbsEnterScripts == { AwaitSuper \o <<Sleep, Sleep>> }

\* LocalShell.onEnter, part_000 lines 547-553
LocalEnterScripts == { AwaitSuper }

\* onEnter(params) of an instance: the bodies it can run
OnEnterScripts(context, params) ==
    CASE context = "sshClient" -> SshEnterScripts(params)
      [] context = "bbsSystem" -> BbsEnterScripts
      [] context = "localShell" -> LocalEnterScripts
      [] context \in PlainInstances -> {BaseOnEnter}
      [] OTHER -> EnterScripts

\* onExit() of an instance: the bodies it can run.  SSHClient.onExit (lines
\* 86-91) and BBSSystem.onExit (part_000 lines 57-62) only print; LocalShell
\* inherits BaseContext.onExit.
OnExitScripts(context) ==
    CASE context \in {"sshClient", "bbsSystem"} -> {<<>>}
      [] context = "localShell" -> {BaseOnExit}
      [] context \in PlainInstances -> {BaseOnExit}
      [] OTHER -> ExitScripts

\* The bodies the environment can pick for the hooks that a switchContext
\* started now would call: <<body of onEnter, body of onExit>>, the empty body
\* standing in for a hook that is not called.
HasSwitch(script) == \E i \in 1..Len(script) : script[i].op = "switch"

FirstSwitch(script) ==
    script[CHOOSE i \in 1..Len(script) :
              /\ script[i].op = "switch"
              /\ \A j \in 1..(i - 1) : script[j].op # "switch"]

Emits(script, ls) == HasSwitch(script) /\ ls["context:switch"] # <<>>

ExitChoicesAfter(es, newContext, ctxs, ls) ==
    IF Emits(es, ls) /\ FirstSwitch(es).contextId \in DOMAIN ctxs
    THEN OnExitScripts(newContext)
    ELSE {<<>>}

EnterChoices(newContext, params, ctxs, ls) ==
    UNION { { <<es, xs>> : xs \in ExitChoicesAfter(es, newContext, ctxs, ls) } :
            es \in OnEnterScripts(newContext, params) }

SwitchChoices(contextId, params, current, ctxs, ls) ==
    IF contextId \notin DOMAIN ctxs THEN { <<<<>>, <<>>>> }
    ELSE IF current # NULL
    THEN { <<<<>>, xs>> : xs \in OnExitScripts(current) }
    ELSE EnterChoices(ctxs[contextId],
                      IF params = Undefined THEN EmptyParams ELSE params,
                      ctxs, ls)

PopEnterChoices(stack, ctxs, ls) ==
    IF stack = <<>> THEN { <<<<>>, <<>>>> }
    ELSE EnterChoices(stack[Len(stack)], EmptyParams, ctxs, ls)

PopChoices(current, stack, ctxs, ls) ==
    IF stack = <<>> THEN { <<<<>>, <<>>>> }
    ELSE IF current # NULL
    THEN { <<<<>>, xs>> : xs \in OnExitScripts(current) }
    ELSE PopEnterChoices(stack, ctxs, ls)

ScriptChoices(script, current, ctxs, ls) ==
    IF Emits(script, ls)
    THEN SwitchChoices(FirstSwitch(script).contextId,
                       FirstSwitch(script).params, current, ctxs, ls)
    ELSE { <<<<>>, <<>>>> }

\* switchContext, line 51: params = {}
DefaultParams(params) == IF params = Undefined THEN EmptyParams ELSE params

\* switchContext, lines 55-58
UnknownContextOutput(contextId) ==
    [event |-> "terminal:output", className |-> "text-error",
     text |-> <<"Error: Unknown context '", contextId, "'">>]

\* switchContext, lines 74-78
ContextChanged(contextId, context) ==
    [event |-> "context:changed", contextId |-> contextId,
     prompt |-> GetPrompt(context), context |-> context]

\* switchContext, lines 68-70: enter the new context
EnterContext(m, t, es, xs) ==
    LET task == m.tasks[t]
        m1 == [m EXCEPT !.currentContext = task.newContext,
                        !.tasks[t] = [task EXCEPT
                            !.pc = "onEnter", !.awaited = "pending",
                            !.onEnterState = "called",
                            !.enterArgs = Append(@, task.params)],
                        !.ok = @ /\ es \in OnEnterScripts(task.newContext,
                                                         task.params)] IN
    RunScript(m1, t, es, es, xs)

\* A faulty variant: this.currentContext is assigned before the id is checked.
UnknownContextClearsCurrent(m, task) ==
    [m EXCEPT
        !.currentContext = task.newContext,
        !.published = Append(@, UnknownContextOutput(task.contextId)),
        !.tasks = Append(@, [task EXCEPT !.pc = "returned",
                                         !.result = [value |-> FALSE]])]

\* switchContext, lines 53-60: the id is not registered
UnknownContext(m, task) ==
    [m EXCEPT
        !.published = Append(@, UnknownContextOutput(task.contextId)),
        !.tasks = Append(@, [task EXCEPT !.pc = "returned",
                                         !.result = [value |-> FALSE]])]

\* A faulty variant: onExit() is called and not awaited.
LeaveWithoutAwait(m, task, es, xs) ==
    LET t == Len(m.tasks) + 1
        m1 == [m EXCEPT
                  !.tasks = Append(@, [task EXCEPT
                      !.outgoing = m.currentContext,
                      !.onExitState = "called",
                      !.pushed = <<m.currentContext>>]),
                  !.contextStack = Append(@, m.currentContext)] IN
    EnterContext(m1, t, es, xs)

\* switchContext, lines 62-66: await this.currentContext.onExit()
LeaveContext(m, task, es, xs) ==
    LET t == Len(m.tasks) + 1
        m1 == [m EXCEPT
                  !.tasks = Append(@, [task EXCEPT
                      !.pc = "onExit", !.awaited = "pending",
                      !.outgoing = m.currentContext,
                      !.onExitState = "called"]),
                  !.ok = @ /\ xs \in OnExitScripts(m.currentContext)] IN
    RunScript(m1, t, xs, es, xs)

\* switchContext, lines 51-70: the call, up to its first await
SwitchCall(m, contextId, params, by, afterRegister, es, xs) ==
    LET t == Len(m.tasks) + 1
        newContext == MapGet(m.contexts, contextId)
        task == [BlankTask EXCEPT
                    !.kind = "switchContext", !.by = by,
                    !.contextId = contextId, !.params = DefaultParams(params),
                    !.newContext = newContext,
                    !.afterRegister = afterRegister,
                    !.stackAtCall = m.contextStack] IN
    IF newContext = NULL THEN UnknownContext(m, task)
    ELSE IF m.currentContext # NULL THEN LeaveContext(m, task, es, xs)
    ELSE EnterContext([m EXCEPT !.tasks = Append(@, task)], t, es, xs)

\* switchContext as one of the invocations that a run holds
SwitchContext(m, contextId, params, by, afterRegister, es, xs) ==
    IF ~m.ok \/ ~CanStart(m, by) THEN [m EXCEPT !.ok = FALSE]
    ELSE SwitchCall(m, contextId, params, by, afterRegister, es, xs)

\* EventBus.emit('context:switch', data), event-bus.js lines 47-58, with the
\* listener of ContextManager.initialize, lines 24-26
EmitContextSwitch(m, i, contextId, params, es, xs) ==
    IF i > Len(m.listeners["context:switch"]) THEN m
    ELSE EmitContextSwitch(
            SwitchContext(m, contextId, params, "listener", NULL, es, xs),
            i + 1, contextId, params, es, xs)

\* A faulty variant: the id of the active instance is persisted
\* (this.currentContext.id) and not the id that was asked for.
FinishSwitchPersistsActive(m, t) ==
    LET task == m.tasks[t]
        ls1 == IF m.fsListener # NoObject
               THEN Off(m.listeners, "filesystem:directory-changed",
                        FsListener(m.fsListener))
               ELSE m.listeners IN
    [m EXCEPT
        !.published = Append(@, ContextChanged(task.contextId,
                                               m.currentContext)),
        !.listeners = On(ls1, "filesystem:directory-changed", FsListener(t)),
        !.fsListener = t,
        !.persisted = InstanceId(m.currentContext),
        !.tasks[t] = [task EXCEPT !.pc = "returned",
                                  !.result = [value |-> TRUE]]]

\* A faulty variant: the listener of the switch before stays subscribed.
FinishSwitchKeepsListeners(m, t) ==
    LET task == m.tasks[t] IN
    [m EXCEPT
        !.published = Append(@, ContextChanged(task.contextId,
                                               m.currentContext)),
        !.listeners = On(@, "filesystem:directory-changed", FsListener(t)),
        !.fsListener = t,
        !.persisted = task.contextId,
        !.tasks[t] = [task EXCEPT !.pc = "returned",
                                  !.result = [value |-> TRUE]]]

\* switchContext, lines 72-104: after onEnter resolved
FinishSwitch(m, t) ==
    LET task == m.tasks[t]
        ls1 == IF m.fsListener # NoObject
               THEN Off(m.listeners, "filesystem:directory-changed",
                        FsListener(m.fsListener))
               ELSE m.listeners IN
    [m EXCEPT
        !.published = Append(@, ContextChanged(task.contextId,
                                               m.currentContext)),
        !.listeners = On(ls1, "filesystem:directory-changed", FsListener(t)),
        !.fsListener = t,
        !.persisted = task.contextId,
        !.tasks[t] = [task EXCEPT !.pc = "returned",
                                  !.result = [value |-> TRUE]]]

\* The async function rejects: a fault of the awaited call propagates.
Reject(m, t) == [m EXCEPT !.tasks[t].pc = "rejected"]

\* switchContext after `await this.currentContext.onExit()`, lines 64-70
AfterOnExit(m, t, es, xs) ==
    IF m.tasks[t].awaited = "rejected"
    THEN Reject(m, t)
    ELSE EnterContext(
            [m EXCEPT !.contextStack = Append(@, m.currentContext),
                      !.tasks[t].pushed = Append(@, m.currentContext)],
            t, es, xs)

\* switchContext after `await this.currentContext.onEnter(params)`, line 70
AfterOnEnter(m, t) ==
    IF m.tasks[t].awaited = "rejected"
    THEN Reject(m, t)
    ELSE FinishSwitch(m, t)

(***************************************************************************)
(* ContextManager.popContext, lines 110-133                                *)
(***************************************************************************)
\* A faulty variant: onExit of the current context is called before the
\* stack is looked at.
EmptyStackAfterExit(m, task) ==
    [m EXCEPT !.tasks = Append(@, [task EXCEPT
                            !.pc = "returned", !.result = [value |-> FALSE],
                            !.outgoing = m.currentContext,
                            !.onExitState = "called"])]

\* popContext, lines 111-113: the stack is empty
EmptyStack(m, task) ==
    [m EXCEPT !.tasks = Append(@, [task EXCEPT
                            !.pc = "returned", !.result = [value |-> FALSE]])]

\* popContext, lines 120-122: this.currentContext = this.contextStack.pop();
\* await this.currentContext.onEnter({}).  pop() of an empty array returns
\* undefined, and the call of onEnter on it throws.
RestoreContext(m, t, es, xs) ==
    IF m.contextStack = <<>>
    THEN [m EXCEPT !.currentContext = NULL, !.tasks[t].pc = "rejected"]
    ELSE LET top == m.contextStack[Len(m.contextStack)]
             m1 == [m EXCEPT
                       !.currentContext = top,
                       !.contextStack = SubSeq(@, 1, Len(@) - 1),
                       !.tasks[t] = [@ EXCEPT
                           !.pc = "onEnter", !.awaited = "pending",
                           !.newContext = top,
                           !.onEnterState = "called",
                           !.enterArgs = Append(@, EmptyParams)],
                       !.ok = @ /\ es \in OnEnterScripts(top, EmptyParams)] IN
         RunScript(m1, t, es, es, xs)

\* popContext, lines 110-118: the call, up to its first await
PopCall(m, by, es, xs) ==
    LET t == Len(m.tasks) + 1
        task == [BlankTask EXCEPT !.kind = "popContext", !.by = by] IN
    IF m.contextStack = <<>> THEN EmptyStack(m, task)
    ELSE IF m.currentContext # NULL
    THEN RunScript([m EXCEPT
                       !.tasks = Append(@, [task EXCEPT
                           !.pc = "onExit", !.awaited = "pending",
                           !.outgoing = m.currentContext,
                           !.onExitState = "called"]),
                       !.ok = @ /\ xs \in OnExitScripts(m.currentContext)],
                   t, xs, es, xs)
    ELSE RestoreContext([m EXCEPT !.tasks = Append(@, task)], t, es, xs)

\* popContext as one of the invocations that a run holds
PopContext(m, by, es, xs) ==
    IF ~m.ok \/ ~CanStart(m, by) THEN [m EXCEPT !.ok = FALSE]
    ELSE PopCall(m, by, es, xs)

\* A faulty variant: the exited context is pushed, as switchContext does.
AfterPopExitPushes(m, t, es, xs) ==
    IF m.tasks[t].awaited = "rejected"
    THEN Reject(m, t)
    ELSE RestoreContext(
            [m EXCEPT !.contextStack =
                         <<m.currentContext>> \o @],
            t, es, xs)

\* popContext after `await this.currentContext.onExit()`, lines 117-122
AfterPopExit(m, t, es, xs) ==
    IF m.tasks[t].awaited = "rejected"
    THEN Reject(m, t)
    ELSE RestoreContext(m, t, es, xs)

\* popContext after `await this.currentContext.onEnter({})`, lines 122-132
AfterPopEnter(m, t) ==
    IF m.tasks[t].awaited = "rejected"
    THEN Reject(m, t)
    ELSE [m EXCEPT
            !.published = Append(@, ContextChanged(InstanceId(m.currentContext),
                                                   m.currentContext)),
            !.tasks[t] = [@ EXCEPT !.pc = "returned",
                                   !.result = [value |-> TRUE]]]


(***************************************************************************)
(* CommandRegistry.execute, lines 156-187                                  *)
(***************************************************************************)
\* A faulty variant: help lists the primary names of every context.
ListingOfAllCommands(cmds, context) ==
    Sort({ name \in DOMAIN cmds :
             ~(cmds[name].name # name) /\ ~cmds[name].hidden })

\* The global help without arguments, command-registry.js lines 46-55: the
\* names its listing shows, in the order of the lines.
HelpListing(cmds, context) ==
    LET names == GetAvailableCommands(cmds, context)
        Shown(n) == /\ GetCommand(cmds, n) # Undefined
                    /\ ~GetCommand(cmds, n).hidden
        shown == SelectSeq(names, Shown) IN
    [i \in DOMAIN shown |-> GetCommand(cmds, shown[i]).name]

\* `async (args) => this.cmdX(args)` (the handlers of the contexts): the
\* promise of the arrow function settles two ticks after that of cmdX.
Wrapped(body, value) == body \o <<Tick, Tick, Return(value)>>

\* SSHClient.cmdAuth, ssh-client.js line 188
ValidPasswords == {"RAVEN_NIGHT_SHADOW", "SECURITY-admin", "override-alpha"}

\* The handlers of SSHClient that begin with `if (!this.authenticated)`:
\* cmdLs, cmdCat, cmdScan, cmdStatus and cmdInitiate
Guarded(execute) ==
    /\ execute.owner = "sshClient"
    /\ execute.fn \in {"cmdLs", "cmdCat", "cmdScan", "cmdStatus", "cmdInitiate"}

\* The body of a handler.  The clients' handlers are named after what they
\* do; `to` is the context a switching handler asks for.  The handlers of
\* the application are named after the method they call: cmdSsh and cmdTelnet
\* (part_000 lines 936-967), cmdExit (part_000 lines 495-501), cmdDisconnect
\* (ssh-client.js lines 409-415) and the registry's help (command-registry.js
\* lines 25-52) and cmdCd (part_000 lines 749-760; the path names a
\* directory or not) are modelled by their code, any other by what it returns: a
\* Result of its own that reports success or failure, at once or (as
\* SSHClient.cmdLs, ssh-client.js lines 215-223) after a sleep.
HandlerScripts(execute, uid, args, context) ==
    CASE execute.fn = "ok" -> { <<Return(HandlerSuccess(uid))>> }
      [] execute.fn = "fail" -> { <<Return(HandlerFailure(uid))>> }
      [] execute.fn = "void" -> { <<>> }
      [] execute.fn = "throw" -> { <<Throw>> }
      [] execute.fn = "slow" -> { <<Sleep, Return(HandlerSuccess(uid))>> }
      [] execute.fn = "switch" ->
            { <<EmitSwitch(execute.to, EmptyParams),
                Return(HandlerSuccess(uid))>> }
      [] execute.fn = "cmdSsh" ->
            IF args = <<>>
            THEN { Wrapped(<<>>, HandlerFailure(uid)) }
            ELSE { Wrapped(<<EmitSwitch("ssh", Params(args[1], UNDEFINED))>>,
                           HandlerOk(uid)) }
      [] execute.fn = "cmdTelnet" ->
            IF args = <<>>
            THEN { Wrapped(<<>>, HandlerFailure(uid)) }
            ELSE { Wrapped(<<EmitSwitch("bbs", Params(args[1], UNDEFINED))>>,
                           HandlerOk(uid)) }
      [] execute.fn = "cmdCd" ->
            { Wrapped(<<ChangeDirectory>>, HandlerOk(uid)),
              Wrapped(<<>>, HandlerFailure(uid)) }
      [] execute.fn \in {"cmdExit", "cmdDisconnect"} ->
            { Wrapped(<<EmitSwitch("localhost", EmptyParams)>>,
                      HandlerOk(uid)) }
      [] execute.fn = "cmdAuth" ->
            IF args = <<>>
            THEN { Wrapped(<<>>, HandlerFailure(uid)) }
            ELSE IF args[1] \in ValidPasswords
            THEN { Wrapped(<<Sleep, Authenticate, Tick>>, HandlerOk(uid)) }
            ELSE { Wrapped(<<Sleep>>, AccessDenied(uid)) }
      [] Guarded(execute) /\ ~authenticated ->
            { Wrapped(<<>>, PermissionDenied(uid, execute.fn)) }
      [] execute.fn = "help" ->
            IF args = <<>>
            THEN { <<Return([HandlerSuccess(uid) EXCEPT
                                !.output = HelpListing(commands, context)])>> }
            ELSE { <<Return(HandlerSuccess(uid))>>,
                   <<Return(HandlerFailure(uid))>> }
      [] OTHER -> { Wrapped(<<>>, HandlerSuccess(uid)),
                    Wrapped(<<>>, HandlerFailure(uid)),
                    Wrapped(<<Sleep>>, HandlerSuccess(uid)) }

\* A faulty variant: the name is looked up as it is written.
ExactKey(name) == name

\* execute, line 157: this.commands.get(name.toLowerCase())
CommandKey(name) == ToLowerCase(name)

\* execute, lines 156-177: the call, up to `await command.execute(...)`
Execute(m, name, args, context, by, hs, es, xs) ==
    LET t == Len(m.tasks) + 1
        key == CommandKey(name)
        task == [BlankTask EXCEPT !.kind = "execute", !.by = by,
                    !.name = name, !.args = args, !.context = context] IN
    IF ~m.ok \/ ~CanStart(m, by) THEN [m EXCEPT !.ok = FALSE]
    ELSE IF key \notin DOMAIN commands
    THEN [m EXCEPT !.tasks = Append(@, [task EXCEPT
                        !.pc = "returned", !.result = NotFoundResult(name)])]
    ELSE LET command == commands[key] IN
         IF ~IsAvailableInContext(command, context)
         THEN [m EXCEPT !.tasks = Append(@, [task EXCEPT
                        !.command = command.uid, !.pc = "returned",
                        !.result = NotAvailableResult(name)])]
         ELSE LET m1 == [m EXCEPT
                    !.tasks = Append(@, [task EXCEPT
                        !.command = command.uid, !.pc = "handler",
                        !.awaited = "pending",
                        !.handlerCalls =
                            Append(@, [args |-> args, context |-> context])]),
                    !.callCount[command.uid] = @ + 1,
                    !.ok = @ /\ hs \in HandlerScripts(command.execute,
                                                      command.uid, args,
                                                      context)] IN
              RunScript(m1, t, hs, es, xs)

\* A faulty variant: execute returns { success: true } whatever the handler
\* returned.
AfterHandlerDropsResult(m, t) ==
    LET task == m.tasks[t] IN
    IF task.awaited = "rejected"
    THEN [m EXCEPT !.tasks[t] = [task EXCEPT !.pc = "returned",
                                    !.result = FaultResult(HandlerMessage)]]
    ELSE [m EXCEPT !.tasks[t] = [task EXCEPT !.pc = "returned",
                                    !.result = BareSuccess]]

\* A faulty variant: execute has no try/catch around the handler.
AfterHandlerPropagates(m, t) ==
    LET task == m.tasks[t] IN
    IF task.awaited = "rejected"
    THEN [m EXCEPT !.tasks[t].pc = "rejected"]
    ELSE [m EXCEPT !.tasks[t] = [task EXCEPT !.pc = "returned",
                                    !.result = IF task.value = Undefined
                                               THEN BareSuccess
                                               ELSE task.value]]

\* execute, lines 178-186: after the await; the catch turns a fault into a
\* failure Result
AfterHandler(m, t) ==
    LET task == m.tasks[t] IN
    IF task.awaited = "rejected"
    THEN [m EXCEPT !.tasks[t] = [task EXCEPT !.pc = "returned",
                                    !.result = FaultResult(HandlerMessage)]]
    ELSE [m EXCEPT !.tasks[t] = [task EXCEPT !.pc = "returned",
                                    !.result = IF task.value = Undefined
                                               THEN BareSuccess
                                               ELSE task.value]]

(***************************************************************************)
(* The event loop                                                          *)
(***************************************************************************)
\* Resume task t: the function it awaits goes on, or, when that has settled,
\* t itself goes on after its await.
Resume(m, t, es, xs) ==
    LET task == m.tasks[t] IN
    IF task.awaited = "pending"
    THEN RunScript(m, t, task.then, es, xs)
    ELSE CASE task.pc = "handler" -> AfterHandler(m, t)
           [] task.pc = "onExit" /\ task.kind = "popContext" ->
                AfterPopExit(m, t, es, xs)
           [] task.pc = "onEnter" /\ task.kind = "popContext" ->
                AfterPopEnter(m, t)
           [] task.pc = "onExit" -> AfterOnExit(m, t, es, xs)
           [] task.pc = "onEnter" -> AfterOnEnter(m, t)

RegistryUnchanged ==
    UNCHANGED <<commands, nextUid, registeredEvents, boot, returned>>

ResumeChoices(t) ==
    LET task == tasks[t] IN
    IF task.awaited = "pending"
    THEN ScriptChoices(task.then, currentContext, contexts, listeners)
    ELSE IF task.pc = "onExit" /\ task.awaited = "fulfilled"
    THEN IF task.kind = "popContext"
         THEN PopEnterChoices(contextStack, contexts, listeners)
         ELSE EnterChoices(task.newContext, task.params, contexts, listeners)
    ELSE { <<<<>>, <<>>>> }

\* The next microtask runs.
RunMicrotask ==
    /\ microQ # <<>>
    /\ \E ch \in ResumeChoices(Head(microQ)) :
         LET m == Resume([Machine EXCEPT !.microQ = Tail(microQ)],
                         Head(microQ), ch[1], ch[2]) IN
         /\ m.ok
         /\ Commit(m)
    /\ RegistryUnchanged

\* A timer fires: a macrotask, so the microtask queue is empty.
FireTimer ==
    /\ microQ = <<>>
    /\ \E t \in timers :
         \E ch \in ResumeChoices(t) :
            LET m == Resume([Machine EXCEPT !.timers = timers \ {t}],
                            t, ch[1], ch[2]) IN
            /\ m.ok
            /\ Commit(m)
    /\ RegistryUnchanged

(***************************************************************************)
(* Registration                                                            *)
(***************************************************************************)
\* register(commandConfig), lines 68-126: the registry after the call
RegistryAfter(reg, commandConfig) ==
    IF RegisterAccepts(commandConfig)
    THEN [commands |-> RegisterMap(reg.commands, commandConfig, reg.nextUid + 1),
          nextUid |-> reg.nextUid + 1,
          registeredEvents |-> reg.registeredEvents + 1]
    ELSE reg

\* registerContext, lines 39-41: commands.forEach(cmd => register(cmd))
\* (nextUid is never negative: the test makes the evaluation of the registry
\* so far strict, one register call after the other, as forEach runs them.)
RECURSIVE RegisterAll(_, _, _)
RegisterAll(reg, configs, i) ==
    IF i > Len(configs) \/ reg.nextUid < 0 THEN reg
    ELSE RegisterAll(RegistryAfter(reg, configs[i]), configs, i + 1)

Registry ==
    [commands |-> commands, nextUid |-> nextUid,
     registeredEvents |-> registeredEvents]

CommitRegistry(reg) ==
    /\ commands' = reg.commands
    /\ nextUid' = reg.nextUid
    /\ registeredEvents' = reg.registeredEvents

\* The call counters cover every command object there is.
ExtendCounts(counts, n) ==
    [u \in 1..n |-> IF u \in DOMAIN counts THEN counts[u] ELSE 0]


(***************************************************************************)
(* The clients.  A client is any program that drives the core through its  *)
(* interface (initialize, registerContext, register, unregister,           *)
(* switchContext, popContext, execute).  Each call is a job of its own (a  *)
(* test step, a UI event): it starts when the microtask queue is empty.    *)
(* A client sets the core up                                               *)
(* before its first switchContext or execute.                              *)
(*                                                                         *)
(*   Spec          the context client: contexts a, b with hooks of every   *)
(*                 kind, switchContext calls, registerContext + switch     *)
(*   SpecStack     the stack client: contexts a, b, up to MaxStack         *)
(*                 switches one after the other as its set-up, then        *)
(*                 switchContext and popContext calls, each made when no   *)
(*                 invocation is in flight                                 *)
(*   SpecRegister  the registration client: register calls with            *)
(*                 configurations of every kind and unregister calls, in   *)
(*                 any order                                               *)
(*   SpecRegistry  the registry client: contexts p, q (plain), maybe one   *)
(*                 of them activated, the configurations registered in     *)
(*                 the order of CommandSequence, then switchContext and    *)
(*                 execute with the current context, as                    *)
(*                 InputHandler.executeCommand does (input-handler.js      *)
(*                 lines 144-148)                                          *)
(***************************************************************************)
UnknownId == "nonexistent"
SwitchParams == {Undefined, EmptyParams}

\* The contexts a client registers while it sets up, in this order.
ClientContexts ==
    IF boot \in {"client", "stack"}
    THEN << <<"a", "A">>, <<"b", "B">> >>
    ELSE << <<"p", "P">>, <<"q", "Q">> >>

ContextIds == { ClientContexts[i][1] : i \in 1..2 }

Handler(owner, fn) == [owner |-> owner, fn |-> fn]
SwitchHandler(owner, to) == [owner |-> owner, fn |-> "switch", to |-> to]

Config(name, contextTags, execute) ==
    [given |-> {"name", "contexts", "execute"}, name |-> name,
     aliases |-> <<>>, contexts |-> contextTags, hidden |-> FALSE,
     execute |-> execute]

\* getCommands() of the clients' instances
GenericCommands(context) ==
    CASE context = "A" -> << Config("boom", {"*"}, Handler("A", "throw")) >>
      [] context = "B" -> << Config("status", {"*"}, Handler("B", "void")) >>
      [] context = "M" -> << Config("go", {"ssh"}, SwitchHandler("M", "a")) >>
      [] OTHER -> << >>

\* A command of the application.  The tables write out the defaults of the
\* properties a literal leaves out (aliases [], hidden false).
AppCommand(owner, name, aliases, contextTags, hidden, fn) ==
    [given |-> {"name", "aliases", "contexts", "hidden", "execute"},
     name |-> name, aliases |-> aliases, contexts |-> contextTags,
     hidden |-> hidden, execute |-> Handler(owner, fn)]

\* CommandRegistry.initialize, lines 17-62: the global help
GlobalHelp ==
    [given |-> {"name", "contexts", "execute"}, name |-> "help",
     aliases |-> <<>>, contexts |-> {"*"}, hidden |-> FALSE,
     execute |-> Handler("commandRegistry", "help")]

\* LocalShell.getCommands, part_000 lines 555-712
LocalShellCommands ==
    LET C(name, aliases, contextTags, hidden, fn) ==
            AppCommand("localShell", name, aliases, contextTags, hidden, fn) IN
    << C("ls", <<"dir">>, {"local"}, FALSE, "cmdLs"),
       C("cd", <<>>, {"local"}, FALSE, "cmdCd"),
       C("pwd", <<>>, {"local"}, FALSE, "cmdPwd"),
       C("cat", <<>>, {"local"}, FALSE, "cmdCat"),
       C("grep", <<>>, {"local"}, FALSE, "cmdGrep"),
       C("find", <<>>, {"local"}, FALSE, "cmdFind"),
       C("mkdir", <<>>, {"local"}, FALSE, "cmdMkdir"),
       C("rm", <<>>, {"local"}, FALSE, "cmdRm"),
       C("echo", <<>>, {"local"}, FALSE, "cmdEcho"),
       C("help", <<>>, {"*"}, FALSE, "cmdHelp"),
       C("clear", <<"cls">>, {"*"}, FALSE, "cmdClear"),
       C("history", <<>>, {"*"}, FALSE, "cmdHistory"),
       C("ssh", <<>>, {"local"}, FALSE, "cmdSsh"),
       C("telnet", <<>>, {"local"}, FALSE, "cmdTelnet"),
       C("save", <<>>, {"*"}, FALSE, "cmdSave"),
       C("load", <<>>, {"*"}, FALSE, "cmdLoad"),
       C("inventory", <<"inv">>, {"*"}, FALSE, "cmdInventory"),
       C("status", <<>>, {"*"}, FALSE, "cmdStatus"),
       C("cowsay", <<>>, {"local"}, TRUE, "cmdCowsay"),
       C("matrix", <<>>, {"local"}, TRUE, "cmdMatrix"),
       C("hack", <<>>, {"*"}, FALSE, "cmdHack") >>

\* BBSSystem.getCommands, part_000 lines 129-215
BbsCommands ==
    LET C(name, aliases, fn) ==
            AppCommand("bbsSystem", name, aliases, {"bbs"}, FALSE, fn) IN
    << C("login", <<>>, "cmdLogin"),
       C("logout", <<>>, "cmdLogout"),
       C("menu", <<>>, "cmdMenu"),
       C("messages", <<"1">>, "cmdMessages"),
       C("files", <<"2">>, "cmdFiles"),
       C("users", <<"3">>, "cmdUsers"),
       C("info", <<"4">>, "cmdInfo"),
       C("download", <<>>, "cmdDownload"),
       C("read", <<>>, "cmdRead"),
       C("exit", <<>>, "cmdExit"),
       C("help", <<>>, "cmdHelp") >>

\* SSHClient.getCommands, ssh-client.js lines 109-168
SshCommands ==
    LET C(name, fn) ==
            AppCommand("sshClient", name, <<>>, {"ssh"}, FALSE, fn) IN
    << C("auth", "cmdAuth"),
       C("ls", "cmdLs"),
       C("cat", "cmdCat"),
       C("scan", "cmdScan"),
       C("status", "cmdStatus"),
       C("disconnect", "cmdDisconnect"),
       C("help", "cmdHelp"),
       C("initiate", "cmdInitiate") >>

\* contextInstance.getCommands()
GetCommands(context) ==
    CASE context = "localShell" -> LocalShellCommands
      [] context = "bbsSystem" -> BbsCommands
      [] context = "sshClient" -> SshCommands
      [] OTHER -> GenericCommands(context)

Range(seq) == { seq[i] : i \in DOMAIN seq }

\* The configurations the clients register: the valid ones, in the order
\* in which the registry client registers them, and the invalid ones.
CommandSequence ==
    << [Config("ls", {"local"}, Handler("client", "slow"))
           EXCEPT !.given = @ \cup {"aliases"}, !.aliases = <<"dir">>],
       [Config("LS", {"bbs"}, Handler("client", "fail"))
           EXCEPT !.given = @ \cup {"aliases"}, !.aliases = <<"list">>],
       [Config("status", {}, Handler("client", "void"))
           EXCEPT !.given = {"name", "execute"}],
       [Config("boom", {"*", "bbs"}, Handler("client", "throw"))
           EXCEPT !.given = @ \cup {"aliases"}, !.aliases = <<"ls">>],
       Config("off", {}, Handler("client", "ok")),
       Config("go", {"*"}, SwitchHandler("client", "q")),
       [Config("secret", {"*"}, Handler("client", "ok"))
           EXCEPT !.given = @ \cup {"hidden"}, !.hidden = TRUE] >>

InvalidConfigs ==
    { [Config("", {"*"}, Handler("client", "ok"))
          EXCEPT !.given = @ \cup {"aliases"}, !.aliases = <<"ghost">>],
      [Config("nohandler", {"*"}, Handler("client", "ok"))
          EXCEPT !.given = {"name", "contexts"}],
      [Config(UNDEFINED, {"*"}, Handler("client", "ok"))
          EXCEPT !.given = {"aliases", "contexts", "execute"},
                 !.aliases = <<"ghost">>] }

HiddenConfigs == { c \in Range(CommandSequence) : c.hidden }

CommandConfigs == Range(CommandSequence) \cup InvalidConfigs

\* The configurations a client passes to its next register call: any of
\* them for the registration client, the next of CommandSequence for the
\* registry client.
RegisterChoices ==
    IF boot = "register" THEN CommandConfigs
    ELSE IF registeredEvents < Len(CommandSequence)
    THEN { CommandSequence[registeredEvents + 1] }
    ELSE {}

\* The names the registration client asks unregister for.
UnregisterNames == {"ls", "LS", "dir", "boom", "status", "nope"}

\* The names the registry client asks execute for.
ClientNames == {"ls", "LS", "dir", "DIR", "list", "status", "boom", "off",
                "go", "secret", "nope"}

\* What the registry client executes: a name, for some with an argument.
ClientInputs ==
    { <<name, <<>>>> : name \in ClientNames }
    \cup { <<name, <<"-l">>>> : name \in {"status", "list"} }

BusEvent == "game:saved"

EventNames == {"context:switch", "filesystem:directory-changed", BusEvent}

\* The state after the constructors (CommandRegistry, ContextManager,
\* EventBus, StateManager: input-handler.js line 344)
Constructed ==
    /\ commands = <<>>
    /\ nextUid = 0
    /\ callCount = <<>>
    /\ registeredEvents = 0
    /\ contexts = <<>>
    /\ currentContext = NULL
    /\ contextStack = <<>>
    /\ fsListener = NoObject
    /\ authenticated = FALSE
    /\ listeners = [e \in EventNames |-> <<>>]
    /\ persisted = "localhost"
    /\ published = <<>>
    /\ tasks = <<>>
    /\ microQ = <<>>
    /\ timers = {}
    /\ returned = [op |-> "none"]

Init ==
    /\ Constructed
    /\ boot = "client"

InitRegistry ==
    /\ Constructed
    /\ boot = "registry"

InitRegister ==
    /\ Constructed
    /\ boot = "register"

InitBus ==
    /\ Constructed
    /\ boot = "bus"

InitStack ==
    /\ Constructed
    /\ boot = "stack"

\* The set-up is over: every invocation so far belongs to it and has returned.
SetUp == \A t \in DOMAIN tasks :
            tasks[t].by = "setup" /\ tasks[t].pc = "returned"

\* ContextManager.initialize, lines 21-27
Initialize ==
    /\ tasks = <<>>
    /\ contexts = <<>>
    /\ listeners["context:switch"] = <<>>
    /\ listeners' = On(listeners, "context:switch", SwitchListener)
    /\ UNCHANGED <<commands, nextUid, callCount, registeredEvents, contexts,
                   currentContext, contextStack, fsListener, authenticated, persisted,
                   published, tasks, microQ, timers, boot, returned>>

\* registerContext(id, contextInstance), lines 34-44
RegisterContext(m, reg, id, contextInstance) ==
    LET reg1 == RegisterAll(reg, GetCommands(contextInstance), 1) IN
    [m |-> [m EXCEPT !.contexts = MapSet(@, id, contextInstance),
                     !.callCount = ExtendCounts(@, reg1.nextUid)],
     reg |-> reg1]

ClientRegisterContext ==
    /\ tasks = <<>>
    /\ boot = "client" \/ listeners["context:switch"] # <<>>
    /\ \E i \in 1..2 :
         LET id == ClientContexts[i][1]
             c == ClientContexts[i][2]
             r == RegisterContext(Machine, Registry, id, c) IN
         /\ id \notin DOMAIN contexts
         /\ i = 2 => ClientContexts[1][1] \in DOMAIN contexts
         /\ r.reg.nextUid <= MaxRegs
         /\ Commit(r.m)
         /\ CommitRegistry(r.reg)
    /\ UNCHANGED <<boot, returned>>

\* register(commandConfig) called by the client
ClientRegister ==
    /\ SetUp
    /\ boot = "registry" => DOMAIN contexts = ContextIds
    /\ \E commandConfig \in RegisterChoices :
         LET reg == RegistryAfter(Registry, commandConfig) IN
         /\ boot = "register" => reg.nextUid <= MaxCommands
         /\ CommitRegistry(reg)
         /\ callCount' = ExtendCounts(callCount, reg.nextUid)
         /\ returned' = [op |-> "register", config |-> commandConfig,
                         value |-> RegisterAccepts(commandConfig)]
    /\ UNCHANGED <<contexts, currentContext, contextStack, fsListener, authenticated,
                   listeners, persisted, published, tasks, microQ, timers,
                   boot>>

\* unregister(name) called by the client, lines 132-147
CommandUnregistered(name) == [event |-> "command:unregistered", name |-> name]

ClientUnregister ==
    /\ tasks = <<>>
    /\ \E name \in UnregisterNames :
         /\ commands' = UnregisterMap(commands, name)
         /\ published' = IF UnregisterFinds(commands, name)
                         THEN Append(published, CommandUnregistered(name))
                         ELSE published
         /\ returned' = [op |-> "unregister", name |-> name,
                         value |-> UnregisterFinds(commands, name)]
    /\ UNCHANGED <<nextUid, callCount, registeredEvents, contexts,
                   currentContext, contextStack, fsListener, authenticated, listeners,
                   persisted, tasks, microQ, timers, boot>>

\* switchContext(contextId) called by the client while it sets up: the
\* registry client activates one of its contexts before it registers a
\* command, the stack client switches up to MaxStack times, each time after
\* the switch before has returned
ClientActivate ==
    /\ boot = "stack" => SetUp /\ microQ = <<>> /\ Len(tasks) < MaxStack
    /\ boot # "stack" => tasks = <<>> /\ commands = <<>>
    /\ DOMAIN contexts = ContextIds
    /\ \E id \in ContextIds :
         \E ch \in SwitchChoices(id, Undefined, currentContext, contexts,
                                 listeners) :
            LET m == SwitchContext(Machine, id, Undefined, "setup", NULL,
                                   ch[1], ch[2]) IN
            /\ m.ok
            /\ Commit(m)
    /\ RegistryUnchanged

\* switchContext(contextId, params) called by the client; the stack client
\* calls it when no invocation is in flight
ClientSwitchContext ==
    /\ microQ = <<>>
    /\ boot = "stack" => timers = {}
    /\ \E id \in ContextIds \cup {UnknownId}, params \in SwitchParams :
         \E ch \in SwitchChoices(id, params, currentContext, contexts,
                                 listeners) :
            LET m == SwitchContext(Machine, id, params, "client", NULL,
                                   ch[1], ch[2]) IN
            /\ m.ok
            /\ Commit(m)
    /\ RegistryUnchanged

\* popContext() called by the client, when no invocation is in flight
ClientPopContext ==
    /\ microQ = <<>> /\ timers = {}
    /\ \E ch \in PopChoices(currentContext, contextStack, contexts,
                             listeners) :
         LET m == PopContext(Machine, "client", ch[1], ch[2]) IN
         /\ m.ok
         /\ Commit(m)
    /\ RegistryUnchanged

\* registerContext(id, instance) followed immediately by switchContext(id, {}),
\* made when no invocation waits for a timer
ClientRegisterAndSwitch ==
    /\ microQ = <<>> /\ timers = {}
    /\ Cardinality({t \in DOMAIN tasks : tasks[t].afterRegister # NULL})
          < MaxFresh
    /\ \E id \in ContextIds, c \in Instances :
         LET r == RegisterContext(Machine, Registry, id, c) IN
         \E ch \in SwitchChoices(id, EmptyParams, currentContext,
                                 r.m.contexts, listeners) :
            LET m == SwitchContext(r.m, id, EmptyParams, "client", c,
                                   ch[1], ch[2]) IN
            /\ r.reg.nextUid <= MaxRegs
            /\ m.ok
            /\ Commit(m)
            /\ CommitRegistry(r.reg)
    /\ UNCHANGED <<boot, returned>>

\* The bodies the environment can pick for execute(name, args, context)
ExecuteChoices(name, args, context) ==
    LET key == CommandKey(name) IN
    IF key \in DOMAIN commands /\ IsAvailableInContext(commands[key], context)
    THEN UNION { { <<hs, ch[1], ch[2]>> :
                     ch \in ScriptChoices(hs, currentContext, contexts,
                                          listeners) } :
                 hs \in HandlerScripts(commands[key].execute,
                                       commands[key].uid, args, context) }
    ELSE { << <<>>, <<>>, <<>> >> }

\* execute(name, [], getCurrentContext()) called by the client
ClientExecute ==
    /\ microQ = <<>>
    /\ \E input \in ClientInputs :
         \E ch \in ExecuteChoices(input[1], input[2], currentContext) :
            LET m == Execute(Machine, input[1], input[2], currentContext,
                             "client", ch[1], ch[2], ch[3]) IN
            /\ m.ok
            /\ Commit(m)
    /\ RegistryUnchanged

\* once(event, cb) called by the client of the bus
ClientOnce ==
    /\ boot = "bus"
    /\ nextUid < MaxOnce
    /\ \E cb \in CallbackKinds :
         /\ nextUid' = nextUid + 1
         /\ listeners' = Once(listeners, BusEvent, nextUid + 1, cb)
         /\ callCount' = ExtendCounts(callCount, nextUid + 1)
    /\ UNCHANGED <<commands, registeredEvents, contexts, currentContext,
                   contextStack, fsListener, authenticated, persisted, published, tasks,
                   microQ, timers, boot, returned>>

\* emit(event, data) called by the client of the bus
ClientEmit ==
    /\ boot = "bus"
    /\ Len(published) < MaxEmits
    /\ LET b == Emit([listeners |-> listeners, callCount |-> callCount,
                      published |-> published], BusEvent) IN
         /\ listeners' = b.listeners
         /\ callCount' = b.callCount
         /\ published' = b.published
    /\ UNCHANGED <<commands, nextUid, registeredEvents, contexts,
                   currentContext, contextStack, fsListener, authenticated, persisted, tasks,
                   microQ, timers, boot, returned>>

(***************************************************************************)
(* The application: TerminalApp.initialize (part_001 lines 270-315) and the *)
(* user at the keyboard.  boot tells how far the bootstrap has come.        *)
(***************************************************************************)
InitApp ==
    /\ Constructed
    /\ boot = "app:constructed"

\* TerminalApp.initialize, part_001 lines 270-281, up to
\* `await this.contextManager.initialize()`
AppInitialize ==
    /\ boot = "app:constructed"
    /\ boot' = "app:initialized"
    /\ LET reg == RegistryAfter(Registry, GlobalHelp) IN
         /\ CommitRegistry(reg)
         /\ callCount' = ExtendCounts(callCount, reg.nextUid)
    /\ listeners' = On(listeners, "context:switch", SwitchListener)
    /\ UNCHANGED <<contexts, currentContext, contextStack, fsListener, authenticated,
                   persisted, published, tasks, microQ, timers, returned>>

\* TerminalApp.initialize, part_001 lines 283-297, up to
\* `await this.contextManager.switchContext('localhost', {firstTime: true})`
AppRegisterContexts ==
    /\ boot = "app:initialized"
    /\ boot' = "app:switching"
    /\ LET r1 == RegisterContext(Machine, Registry, "localhost", "localShell")
           r2 == RegisterContext(r1.m, r1.reg, "bbs", "bbsSystem")
           r3 == RegisterContext(r2.m, r2.reg, "ssh", "sshClient")
           params == Params(UNDEFINED, "true") IN
       \E ch \in SwitchChoices("localhost", params, currentContext,
                               r3.m.contexts, listeners) :
          LET m == SwitchContext(r3.m, "localhost", params, "bootstrap", NULL,
                                 ch[1], ch[2]) IN
          /\ m.ok
          /\ Commit(m)
          /\ CommitRegistry(r3.reg)
    /\ UNCHANGED returned

\* TerminalApp.initialize, part_001 lines 299-301: once the switch has
\* returned the InputHandler is created and listens to the keyboard
AppStartInput ==
    /\ boot = "app:switching"
    /\ microQ = <<>>
    /\ tasks[1].pc = "returned"
    /\ boot' = "app:running"
    /\ UNCHANGED <<commands, nextUid, callCount, registeredEvents, contexts,
                   currentContext, contextStack, fsListener, authenticated, listeners,
                   persisted, published, tasks, microQ, timers, returned>>

\* The hosts the user names to ssh and telnet.
Hosts == {"mainframe.local", "10.0.0.9"}

\* What the user types: a command name, and for ssh and telnet maybe a host.
\* The names are those that more than one context supplies, names and
\* aliases that one context supplies, a hidden one, one in capitals and one
\* that no context supplies.
UserNames ==
    {"ls", "cd", "cat", "status", "help", "pwd", "clear", "cowsay", "dir",
     "login", "1", "exit", "auth", "scan", "disconnect", "ssh", "telnet",
     "LS", "nope"}

UserInputs ==
    { <<name, <<>>>> : name \in UserNames }
    \cup { <<"ssh", <<host>>>> : host \in Hosts }
    \cup { <<"telnet", <<"bbs.local">>>> }

\* InputHandler.handleEnter and executeCommand, input-handler.js lines
\* 107-176: the name is lowercased and executed in the current context
UserCommand ==
    /\ boot = "app:running"
    /\ microQ = <<>>
    /\ \E input \in UserInputs :
         LET commandName == ToLowerCase(input[1])
             args == input[2] IN
         \E ch \in ExecuteChoices(commandName, args, currentContext) :
            LET m == Execute(Machine, commandName, args, currentContext,
                             "input", ch[1], ch[2], ch[3]) IN
            /\ m.ok
            /\ Commit(m)
    /\ RegistryUnchanged

Next ==
    \/ Initialize
    \/ ClientRegisterContext
    \/ ClientSwitchContext
    \/ ClientRegisterAndSwitch
    \/ RunMicrotask
    \/ FireTimer

Spec == Init /\ [][Next]_vars

NextStack ==
    \/ Initialize
    \/ ClientRegisterContext
    \/ ClientActivate
    \/ ClientSwitchContext
    \/ ClientPopContext
    \/ RunMicrotask
    \/ FireTimer

SpecStack == InitStack /\ [][NextStack]_vars

NextRegister ==
    \/ ClientRegister
    \/ ClientUnregister

SpecRegister == InitRegister /\ [][NextRegister]_vars

NextRegistry ==
    \/ Initialize
    \/ ClientRegisterContext
    \/ ClientActivate
    \/ ClientRegister
    \/ ClientSwitchContext
    \/ ClientExecute
    \/ RunMicrotask
    \/ FireTimer

SpecRegistry == InitRegistry /\ [][NextRegistry]_vars

NextBus ==
    \/ ClientOnce
    \/ ClientEmit

SpecBus == InitBus /\ [][NextBus]_vars

NextApp ==
    \/ AppInitialize
    \/ AppRegisterContexts
    \/ AppStartInput
    \/ UserCommand
    \/ RunMicrotask
    \/ FireTimer

SpecApp == InitApp /\ [][NextApp]_vars

\* The user who types a command only when no switchContext is in progress
\* (the output of the switch is complete and the prompt is that of the
\* context).
UserCommandAtPrompt ==
    /\ \A t \in DOMAIN tasks :
          tasks[t].kind = "switchContext"
          => tasks[t].pc \in {"returned", "rejected"}
    /\ UserCommand

NextAppAtPrompt ==
    \/ AppInitialize
    \/ AppRegisterContexts
    \/ AppStartInput
    \/ UserCommandAtPrompt
    \/ RunMicrotask
    \/ FireTimer

\* The application with that user and the event loop of the browser: a
\* queued microtask runs, and a timer that was set fires.  Nothing obliges
\* the user to type.
SpecAppAtPrompt ==
    /\ InitApp
    /\ [][NextAppAtPrompt]_vars
    /\ WF_vars(RunMicrotask)
    /\ WF_vars(FireTimer)

\* What the user of an SSH session types: ssh to a host that asks for a
\* password and to one that does not, auth with a valid and with a wrong
\* password, two of the guarded commands, and disconnect.
SessionInputs ==
    { <<"ssh", <<"mainframe.local">>>>, <<"ssh", <<"192.168.1.10">>>>,
      <<"auth", <<"override-alpha">>>>, <<"auth", <<"guess">>>>,
      <<"scan", <<>>>>, <<"initiate", <<>>>>, <<"disconnect", <<>>>> }

\* InputHandler.handleEnter and executeCommand, input-handler.js lines
\* 107-176, for the user who types the next command, one of at most
\* MaxInputs, when the one before has run to its end: no invocation is in
\* progress and no timer is set
SessionCommand ==
    /\ boot = "app:running"
    /\ microQ = <<>> /\ timers = {}
    /\ \A t \in DOMAIN tasks : tasks[t].pc \in {"returned", "rejected"}
    /\ Cardinality({ t \in DOMAIN tasks : tasks[t].by = "session" }) < MaxInputs
    /\ \E input \in SessionInputs :
         LET commandName == ToLowerCase(input[1])
             args == input[2] IN
         \E ch \in ExecuteChoices(commandName, args, currentContext) :
            LET m == Execute(Machine, commandName, args, currentContext,
                             "session", ch[1], ch[2], ch[3]) IN
            /\ m.ok
            /\ Commit(m)
    /\ RegistryUnchanged

NextSsh ==
    \/ AppInitialize
    \/ AppRegisterContexts
    \/ AppStartInput
    \/ SessionCommand
    \/ RunMicrotask
    \/ FireTimer

SpecSsh == InitApp /\ [][NextSsh]_vars

(***************************************************************************)
(* Properties                                                              *)
(***************************************************************************)
ExecuteTasks == { t \in DOMAIN tasks : tasks[t].kind = "execute" }
SwitchTasks == { t \in DOMAIN tasks : tasks[t].kind = "switchContext" }

\* The command that execute(name, ...) of task t looks up.  No command is
\* registered while an invocation exists, so it is the one t looked up.
Found(t) == ToLowerCase(tasks[t].name) \in DOMAIN commands
Looked(t) == commands[ToLowerCase(tasks[t].name)]

NotAvailableError(name) ==
    <<"Command '", name, "' is not available in this context.">>

\* How often the handler of command object uid was invoked.
Invocations(uid) ==
    Cardinality({ t \in ExecuteTasks :
                    tasks[t].command = uid /\ tasks[t].handlerCalls # <<>> })

\* C1: execute of a registered command whose contexts list has no wildcard
\* and lacks the type of the active context returns the failure Result "not
\* available in this context", and the handler is never invoked: no call is
\* recorded for the invocation and the call count of every command is the
\* number of invocations that passed the eligibility rule.
C1_IneligibleCommandIsNotRun ==
    /\ \A t \in ExecuteTasks :
          (/\ Found(t)
           /\ tasks[t].context # NULL
           /\ "*" \notin Looked(t).contexts
           /\ InstanceType(tasks[t].context) \notin Looked(t).contexts)
          => /\ tasks[t].pc = "returned"
             /\ tasks[t].result.success = FALSE
             /\ tasks[t].result.error = NotAvailableError(tasks[t].name)
             /\ tasks[t].handlerCalls = <<>>
    /\ \A uid \in DOMAIN callCount : callCount[uid] = Invocations(uid)

\* An execute in the bbs context q of a command registered for other types
\* has returned.
C1_Witness ==
    \E t \in ExecuteTasks :
        /\ Found(t)
        /\ tasks[t].context = "Q"
        /\ "*" \notin Looked(t).contexts
        /\ "bbs" \notin Looked(t).contexts
        /\ tasks[t].pc = "returned"

\* C7: execute of a registered command whose contexts list contains the
\* wildcard never returns the eligibility failure, whatever the type of the
\* active context and also when no context is active: its handler is invoked.
C7_WildcardIsAlwaysEligible ==
    \A t \in ExecuteTasks :
        (Found(t) /\ "*" \in Looked(t).contexts)
        => /\ tasks[t].result # Undefined =>
                 tasks[t].result.error # NotAvailableError(tasks[t].name)
           /\ Len(tasks[t].handlerCalls) = 1

\* Wildcard commands were executed with no context active and in a context
\* whose type their list does not name.
C7_Witness ==
    \E t1, t2 \in ExecuteTasks :
        /\ Found(t1) /\ "*" \in Looked(t1).contexts
        /\ tasks[t1].context = NULL /\ tasks[t1].pc = "returned"
        /\ Found(t2) /\ "*" \in Looked(t2).contexts
        /\ tasks[t2].context # NULL
        /\ InstanceType(tasks[t2].context) \notin Looked(t2).contexts
        /\ tasks[t2].pc = "returned"

\* Invocation t of execute holds a fault of its handler.
Faulted(t) == tasks[t].kind = "execute" /\ tasks[t].awaited = "rejected"

\* In this step the handler of t throws / execute goes on after the fault.
FaultNow(t) ==
    /\ tasks'[t].kind = "execute" /\ tasks'[t].awaited = "rejected"
    /\ t \in DOMAIN tasks => tasks[t].awaited # "rejected"
HandledNow(t) ==
    /\ t \in DOMAIN tasks /\ Faulted(t)
    /\ tasks[t].pc = "handler" /\ tasks'[t].pc # "handler"

Contains(message, part) == \E i \in DOMAIN message : message[i] = part

WellBehaved(command) == command.execute.fn \in {"ok", "void", "slow"}

\* C2: a handler that throws during execute does not make execute reject:
\* execute resolves to a failure Result whose error contains the thrown
\* message; the steps in which the handler throws and in which execute takes
\* the fault up leave the registry map, currentContext and contextStack as
\* they are; and an execute, made after one that took a fault, of a different
\* well-behaved command that is eligible succeeds.
C2_HandlerFaultIsContained ==
    /\ [][\A t \in DOMAIN tasks' :
            /\ (FaultNow(t) \/ HandledNow(t))
                  => UNCHANGED <<commands, currentContext, contextStack>>
            /\ HandledNow(t)
                  => /\ tasks'[t].pc = "returned"
                     /\ tasks'[t].result.success = FALSE
                     /\ Contains(tasks'[t].result.error, HandlerMessage)]_vars
    /\ [](\A t1, t2 \in ExecuteTasks :
            (/\ t1 < t2
             /\ Faulted(t1)
             /\ Found(t2)
             /\ tasks[t2].command # tasks[t1].command
             /\ WellBehaved(Looked(t2))
             /\ IsAvailableInContext(Looked(t2), tasks[t2].context)
             /\ tasks[t2].pc # "handler")
            => /\ tasks[t2].pc = "returned"
               /\ tasks[t2].result.success = TRUE)
    /\ [](\A t \in ExecuteTasks : tasks[t].pc # "rejected")

\* With a context active, a handler threw, execute returned the failure, and
\* a later execute of another command returned success.
C2_Witness ==
    \E t1, t2 \in ExecuteTasks :
        /\ t1 < t2
        /\ Faulted(t1) /\ tasks[t1].pc = "returned"
        /\ tasks[t1].context # NULL
        /\ currentContext = tasks[t1].context
        /\ tasks[t2].command # tasks[t1].command
        /\ tasks[t2].pc = "returned" /\ tasks[t2].result.success = TRUE

\* C5: for every command that register accepted, getCommand(name) and
\* getCommand(alias), for each of its aliases, return the same Command
\* object.  (Stated for the accepted commands the map holds.)
C5_NameAndAliasesResolveAlike ==
    \A key \in DOMAIN commands :
        LET command == commands[key] IN
        \A i \in 1..Len(command.aliases) :
            GetCommand(commands, command.name)
               = GetCommand(commands, command.aliases[i])

\* C3: within one switchContext made while a context is active, onEnter of
\* the new context is not invoked until onExit of the outgoing one has
\* resolved.
C3_EnterAfterExitResolved ==
    \A t \in SwitchTasks :
        (tasks[t].outgoing # NULL /\ tasks[t].onEnterState # "none")
        => tasks[t].onExitState = "resolved"

\* A switchContext(B) made while A was active waits for a timer of A.onExit.
C3_Witness ==
    \E t \in SwitchTasks :
        /\ tasks[t].outgoing # NULL
        /\ tasks[t].newContext # tasks[t].outgoing
        /\ tasks[t].pc = "onExit"
        /\ t \in timers

\* C4: switchContext with an id that is not registered, called in any state
\* by the client or by the context:switch listener, returns false, publishes
\* one terminal:output error, invokes no onExit / onEnter hook (it calls
\* none, and no other invocation moves) and leaves currentContext,
\* contextStack and the persisted current-context id unchanged.
C4_UnknownContextIsRefused ==
    \A id \in (ContextIds \cup {UnknownId}) \ DOMAIN contexts :
      \A params \in SwitchParams, by \in {"client", "listener"} :
        LET m == SwitchCall(Machine, id, params, by, NULL, <<>>, <<>>)
            t == Len(tasks) + 1 IN
           /\ m.ok
           /\ Len(m.tasks) = t
           /\ m.tasks[t].pc = "returned"
           /\ m.tasks[t].result = [value |-> FALSE]
           /\ m.published = Append(published, UnknownContextOutput(id))
           /\ m.tasks[t].onExitState = "none"
           /\ m.tasks[t].onEnterState = "none"
           /\ SubSeq(m.tasks, 1, Len(tasks)) = tasks
           /\ m.microQ = microQ /\ m.timers = timers
           /\ m.currentContext = currentContext
           /\ m.contextStack = contextStack
           /\ m.persisted = persisted

\* With a context active, switchContext of an unknown id has returned.
C4_Witness ==
    \E t \in SwitchTasks :
        /\ tasks[t].newContext = NULL
        /\ tasks[t].pc = "returned"
        /\ currentContext # NULL

\* Invocation t returns in this step.
ReturnsNow(t) ==
    /\ tasks'[t].pc = "returned"
    /\ t \in DOMAIN tasks => tasks[t].pc # "returned"

\* C8: registerContext(id, instance) followed immediately by
\* switchContext(id, {}) results, when the switch returns, in
\* getCurrentContext().id = id and in instance.onEnter having been called
\* once, with {}, for every id and instance.
C8_RegisterThenSwitchActivatesId ==
    [][\A t \in DOMAIN tasks' :
          (tasks'[t].afterRegister # NULL /\ ReturnsNow(t))
          => /\ currentContext' # NULL
             /\ InstanceId(currentContext') = tasks'[t].contextId
             /\ tasks'[t].enterArgs = <<EmptyParams>>]_vars

\* The context the last context:changed notification names, null if none.
RECURSIVE LastChanged(_, _)
LastChanged(events, i) ==
    IF i = 0 THEN NULL
    ELSE IF events[i].event = "context:changed" THEN events[i].context
    ELSE LastChanged(events, i - 1)

\* C9: a fault of onExit or onEnter during switchContext does not leave
\* switchContext (the promise of the call, or of the context:switch listener,
\* is not rejected); an error is published; and currentContext, the context
\* of the published prompt and the persisted id agree.
C9_HookFaultIsContained ==
    \A t \in SwitchTasks :
        (tasks[t].onExitState = "rejected" \/ tasks[t].onEnterState = "rejected")
        => /\ tasks[t].pc # "rejected"
           /\ tasks[t].pc = "returned"
              => /\ \E i \in DOMAIN published :
                       published[i].event = "terminal:output"
                 /\ LastChanged(published, Len(published)) = currentContext
                 /\ MapGet(contexts, persisted) = currentContext

\* C10: a switchContext(id) with a registered id returns true, and when it
\* returns the active context is the instance registered under id, also when
\* the onEnter of the target asked for another switch.
C10_SwitchReturnsWithTargetActive ==
    [][\A t \in DOMAIN tasks' :
          (/\ tasks'[t].kind = "switchContext"
           /\ tasks'[t].newContext # NULL
           /\ ReturnsNow(t))
          => /\ tasks'[t].result = [value |-> TRUE]
             /\ currentContext' = tasks'[t].newContext]_vars

\* The notifications published in this step.
NewEvents == (Len(published) + 1)..Len(published')

\* C11: every context:changed notification is published with the state after
\* the enter: the context it carries is the active one, its prompt is the
\* prompt of the active context, its contextId is the id under which the
\* active context is registered, and no onEnter of the active context is
\* still awaited.
C11_PromptReflectsPostEnterState ==
    [][\A i \in NewEvents :
          published'[i].event = "context:changed"
          => /\ currentContext' # NULL
             /\ published'[i].context = currentContext'
             /\ published'[i].prompt = GetPrompt(currentContext')
             /\ MapGet(contexts', published'[i].contextId) = currentContext'
             /\ \A t \in DOMAIN tasks' :
                   (tasks'[t].newContext = currentContext')
                   => tasks'[t].pc # "onEnter"]_vars

\* C12: when switchContext(id) returns true, the persisted current-context
\* id is id.
C12_SuccessPersistsTheId ==
    [][\A t \in DOMAIN tasks' :
          (/\ tasks'[t].kind = "switchContext"
           /\ ReturnsNow(t)
           /\ tasks'[t].result = [value |-> TRUE])
          => persisted' = tasks'[t].contextId]_vars

\* A switchContext of an id other than the one persisted at the start has
\* returned true, and the id is the persisted one.
C12_Witness ==
    \E t \in SwitchTasks :
        /\ tasks[t].pc = "returned"
        /\ tasks[t].result = [value |-> TRUE]
        /\ tasks[t].contextId # "localhost"
        /\ persisted = tasks[t].contextId

\* What the handler of a client's command returns, by what it does.
Returns(command) ==
    CASE command.execute.fn \in {"ok", "slow", "switch"} ->
            HandlerSuccess(command.uid)
      [] command.execute.fn = "fail" -> HandlerFailure(command.uid)
      [] OTHER -> Undefined

\* C13: for a command that is found and eligible, execute calls the handler
\* once, with the args and the context it was given, and when the handler
\* has returned it returns the Result object of the handler, or the bare
\* success Result when the handler returned nothing.
C13_ResultIsTheHandlersResult ==
    \A t \in ExecuteTasks :
        (Found(t) /\ IsAvailableInContext(Looked(t), tasks[t].context))
        => /\ tasks[t].handlerCalls =
                 <<[args |-> tasks[t].args, context |-> tasks[t].context]>>
           /\ callCount[Looked(t).uid] = Invocations(Looked(t).uid)
           /\ (tasks[t].pc = "returned" /\ tasks[t].awaited = "fulfilled")
              => tasks[t].result =
                    IF Returns(Looked(t)) = Undefined
                    THEN BareSuccess
                    ELSE Returns(Looked(t))

\* With a context active, a handler that returns nothing was called with an
\* argument, a handler that returns a failure Result was called too, and both
\* executes have returned.
C13_Witness ==
    \E t1, t2 \in ExecuteTasks :
        /\ Found(t1) /\ Looked(t1).execute.fn = "void"
        /\ tasks[t1].args # <<>> /\ tasks[t1].context # NULL
        /\ tasks[t1].pc = "returned" /\ tasks[t1].handlerCalls # <<>>
        /\ Found(t2) /\ Looked(t2).execute.fn = "fail"
        /\ tasks[t2].pc = "returned" /\ tasks[t2].handlerCalls # <<>>

\* An execute is called in this step and finds no command.
NotFoundNow(t) ==
    /\ t \notin DOMAIN tasks
    /\ tasks'[t].kind = "execute"
    /\ tasks'[t].command = NoObject

\* C14: execute looks the name up without regard to letter case: when a key
\* of the registry equals the lowercased name, the command under that key is
\* the one that execute takes, so the variants of one name reach one
\* command; when none does, execute returns the failure "Command not
\* found", calls no handler and leaves the registry as it is.
C14_LookupIgnoresCase ==
    /\ [](\A t \in ExecuteTasks :
            IF ToLowerCase(tasks[t].name) \in DOMAIN commands
            THEN /\ tasks[t].command = commands[ToLowerCase(tasks[t].name)].uid
                 /\ tasks[t].result # NotFoundResult(tasks[t].name)
            ELSE /\ tasks[t].pc = "returned"
                 /\ tasks[t].result = NotFoundResult(tasks[t].name)
                 /\ tasks[t].handlerCalls = <<>>)
    /\ [](\A t1, t2 \in ExecuteTasks :
            (ToLowerCase(tasks[t1].name) = ToLowerCase(tasks[t2].name))
            => tasks[t1].command = tasks[t2].command)
    /\ [][\A t \in DOMAIN tasks' :
            NotFoundNow(t)
            => UNCHANGED <<commands, nextUid, registeredEvents, callCount>>]_vars

\* A name written in capitals reached the command registered in lower case,
\* and a name that no key matches was refused.
C14_Witness ==
    \E t1, t2 \in ExecuteTasks :
        /\ tasks[t1].name # ToLowerCase(tasks[t1].name)
        /\ Found(t1) /\ tasks[t1].command = Looked(t1).uid
        /\ tasks[t1].pc = "returned"
        /\ ~Found(t2) /\ tasks[t2].pc = "returned"

\* The primary commands of the registry: those that the key of their own
\* name leads to.
PrimaryCommands ==
    { commands[k] : k \in { n \in DOMAIN commands :
                               n = ToLowerCase(commands[n].name) } }

RegistryContexts == {NULL} \cup PlainInstances

\* C15: getAvailableCommands(context) returns names in sorted order without
\* duplicates, and the commands they name are exactly the primary commands
\* of the registry that are not hidden and are eligible in the context,
\* in whatever letter case their names were registered.
C15_AvailableAreThePrimaryNames ==
    \A context \in RegistryContexts :
        LET names == GetAvailableCommands(commands, context) IN
        /\ \A i, j \in DOMAIN names :
              i < j => Rank(names[i]) < Rank(names[j])
        /\ { GetCommand(commands, names[i]).uid : i \in DOMAIN names }
              = { command.uid : command \in
                    { c \in PrimaryCommands :
                        ~c.hidden /\ IsAvailableInContext(c, context) } }

\* The client's call returned in this step.
CallReturns(op) == returned' # returned /\ returned'.op = op

\* C16: unregister(name) of a name that resolves to a command returns true
\* and leaves no key of the registry that resolves to that command, neither
\* the key of its name nor one of an alias; for a name that no key matches
\* it returns false and leaves the registry and the published events as
\* they are.
C16_UnregisterRemovesEveryKey ==
    [][CallReturns("unregister")
       => IF ToLowerCase(returned'.name) \in DOMAIN commands
          THEN /\ returned'.value = TRUE
               /\ \A k \in DOMAIN commands' :
                     commands'[k].uid
                        # commands[ToLowerCase(returned'.name)].uid
          ELSE /\ returned'.value = FALSE
               /\ UNCHANGED <<commands, published>>]_vars

\* The configuration lacks a name or a handler.
Incomplete(commandConfig) ==
    \/ "name" \notin commandConfig.given
    \/ commandConfig.name = ""
    \/ "execute" \notin commandConfig.given

\* C17: register of a configuration whose name is missing or empty, or that
\* has no handler, returns false, adds no key to the map (neither the name
\* nor an alias) and publishes no command:registered event.
C17_IncompleteConfigIsRefused ==
    [][(CallReturns("register") /\ Incomplete(returned'.config))
       => /\ returned'.value = FALSE
          /\ UNCHANGED <<commands, nextUid, registeredEvents, published>>]_vars

\* With commands registered, register of a configuration without a name
\* that brings an alias has returned false, and the alias is no key.
C17_Witness ==
    /\ commands # <<>>
    /\ returned.op = "register"
    /\ Incomplete(returned.config)
    /\ returned.config.aliases # <<>>
    /\ returned.value = FALSE
    /\ \A i \in DOMAIN returned.config.aliases :
          ToLowerCase(returned.config.aliases[i]) \notin DOMAIN commands

PopTasks == { t \in DOMAIN tasks : tasks[t].kind = "popContext" }

\* The steps of a popContext t: it is called, it goes on after onExit has
\* resolved, it returns true.
PopCalledNow(t) == t \notin DOMAIN tasks /\ tasks'[t].kind = "popContext"

PopRestoresNow(t) ==
    /\ t \in PopTasks
    /\ tasks[t].onEnterState = "none"
    /\ tasks'[t].onEnterState # "none"

PopReturnsNow(t) ==
    /\ t \in PopTasks
    /\ ReturnsNow(t)

\* C18: popContext called with a non-empty stack calls onExit of the current
\* context and waits for it; once that has resolved it makes the top element
\* of the stack the current context, the stack being that element shorter
\* (the exited context is not pushed), and calls onEnter of that context
\* with {}; once that has resolved it publishes the prompt of the current
\* context and returns true.
C18_PopRestoresTheTop ==
    [][\A t \in DOMAIN tasks' :
          /\ (PopCalledNow(t) /\ contextStack # <<>>)
                => /\ tasks'[t].outgoing = currentContext
                   /\ tasks'[t].onExitState # "none"
                   /\ tasks'[t].onEnterState = "none"
                   /\ tasks'[t].pc = "onExit"
                   /\ UNCHANGED <<currentContext, contextStack, published>>
          /\ PopRestoresNow(t)
                => /\ tasks[t].onExitState = "resolved"
                   /\ contextStack # <<>>
                   /\ currentContext' = contextStack[Len(contextStack)]
                   /\ contextStack'
                         = SubSeq(contextStack, 1, Len(contextStack) - 1)
                   /\ tasks'[t].newContext = currentContext'
                   /\ tasks'[t].enterArgs = <<EmptyParams>>
          /\ PopReturnsNow(t)
                => /\ tasks'[t].result = [value |-> TRUE]
                   /\ tasks[t].onEnterState = "resolved"
                   /\ published'
                         = Append(published,
                                  ContextChanged(InstanceId(currentContext'),
                                                 currentContext'))
                   /\ UNCHANGED <<currentContext, contextStack>>]_vars

\* After switches to a and then to b, a popContext has exited b, restored
\* a from the stack and returned true; the stack is empty again.
C18_Witness ==
    \E t \in PopTasks :
        /\ tasks[t].pc = "returned"
        /\ tasks[t].result = [value |-> TRUE]
        /\ tasks[t].outgoing # tasks[t].newContext
        /\ currentContext = tasks[t].newContext
        /\ contextStack = <<>>

\* C19: popContext called with an empty stack, in any state, returns false,
\* calls no onExit / onEnter hook (none of its own, and no other invocation
\* moves), publishes nothing and leaves currentContext and the stack as
\* they are.
C19_PopOfEmptyStackIsRefused ==
    contextStack = <<>>
    => LET m == PopCall(Machine, "client", <<>>, <<>>)
           t == Len(tasks) + 1 IN
       /\ m.ok
       /\ Len(m.tasks) = t
       /\ m.tasks[t].pc = "returned"
       /\ m.tasks[t].result = [value |-> FALSE]
       /\ m.tasks[t].onExitState = "none"
       /\ m.tasks[t].onEnterState = "none"
       /\ SubSeq(m.tasks, 1, Len(tasks)) = tasks
       /\ m.microQ = microQ /\ m.timers = timers
       /\ m.published = published
       /\ m.currentContext = currentContext
       /\ m.contextStack = contextStack

\* With a context active and nothing on the stack, a popContext has returned
\* false.
C19_Witness ==
    \E t \in PopTasks :
        /\ tasks[t].pc = "returned"
        /\ tasks[t].result = [value |-> FALSE]
        /\ currentContext # NULL
        /\ contextStack = <<>>

\* The executes that the input handler started and that have not returned.
PendingInputs ==
    { t \in ExecuteTasks : tasks[t].by = "input" /\ tasks[t].pc = "handler" }

\* C20: at most one execute started by the input handler is in flight: the
\* handler starts no execute while the Result of an earlier one is pending.
C20_OneCommandAtATime == Cardinality(PendingInputs) <= 1

\* The switchContext invocations in progress: started, and neither returned
\* nor rejected.
SwitchesInProgress ==
    { t \in SwitchTasks : tasks[t].pc \notin {"returned", "rejected"} }

\* The invocations that start in this step.
StartsNow == DOMAIN tasks' \ DOMAIN tasks

\* C21: when the user issues a command after the Result of every earlier
\* command has resolved, a switchContext that the command's handler starts
\* (through the context:switch listener) does not begin while a
\* switchContext that an earlier command started is still in progress.
C21_CommandSwitchesDoNotOverlap ==
    [][(/\ PendingInputs = {}
        /\ \E e \in StartsNow :
              tasks'[e].kind = "execute" /\ tasks'[e].by = "input")
       => \A t \in StartsNow :
             (tasks'[t].kind = "switchContext" /\ tasks'[t].by = "listener")
             => \A s \in SwitchesInProgress : tasks[s].by # "listener"]_vars

\* The handlers and hooks in progress: the invocation awaits the promise of
\* the handler, of onExit or of onEnter, and the promise is not settled.
HooksInProgress ==
    { t \in DOMAIN tasks : /\ tasks[t].pc \in {"handler", "onExit", "onEnter"}
                           /\ tasks[t].awaited = "pending" }

\* C22: while the application runs, at most one command handler or
\* lifecycle hook (onEnter, onExit) is started and not yet resolved.
C22_OneHandlerOrHookAtATime ==
    boot = "app:running" => Cardinality(HooksInProgress) <= 1

\* C23: the contexts mapping is append-only: an id that is registered stays
\* registered with the instance of its first registration, whatever
\* registerContext is called with later.
C23_FirstRegisteredContextStays ==
    [][\A id \in DOMAIN contexts :
          id \in DOMAIN contexts' /\ contexts'[id] = contexts[id]]_vars

\* The commands that the names getAvailableCommands(context) returns lead to.
Listed(context) ==
    LET names == GetAvailableCommands(commands, context) IN
    { GetCommand(commands, names[i]).uid : i \in DOMAIN names }

\* C24: a command registered with hidden = true is never among the names
\* getAvailableCommands returns, whatever the context; and execute of its
\* name in a context where it is eligible invokes its handler once and
\* returns what the handler returns.
C24_HiddenIsUnlistedButRuns ==
    /\ \A context \in RegistryContexts, k \in DOMAIN commands :
          commands[k].hidden
          => /\ commands[k].uid \notin Listed(context)
             /\ \A i \in DOMAIN GetAvailableCommands(commands, context) :
                   GetAvailableCommands(commands, context)[i]
                      \notin {k, commands[k].name}
    /\ \A t \in ExecuteTasks :
          (/\ Found(t) /\ Looked(t).hidden
           /\ IsAvailableInContext(Looked(t), tasks[t].context))
          => /\ tasks[t].handlerCalls =
                   <<[args |-> tasks[t].args, context |-> tasks[t].context]>>
             /\ callCount[Looked(t).uid] = Invocations(Looked(t).uid)
             /\ tasks[t].pc = "returned" => tasks[t].result = Returns(Looked(t))

\* The hidden command was executed with a context active and has returned,
\* and other commands are listed for that context.
C24_Witness ==
    \E t \in ExecuteTasks :
        /\ Found(t) /\ Looked(t).hidden
        /\ tasks[t].context # NULL
        /\ tasks[t].pc = "returned"
        /\ callCount[Looked(t).uid] = 1
        /\ GetAvailableCommands(commands, tasks[t].context) # <<>>

\* The commands registered with a contexts list that is empty.
NowhereCommands == { k \in DOMAIN commands : commands[k].contexts = {} }

\* C25: a command registered with an empty contexts list is eligible
\* nowhere: execute of it returns the eligibility failure and does not invoke
\* the handler, in a context of any type and with no context active, and
\* getAvailableCommands lists it for no context.
C25_EmptyContextsIsEligibleNowhere ==
    /\ \A t \in ExecuteTasks :
          (Found(t) /\ Looked(t).contexts = {})
          => /\ tasks[t].pc = "returned"
             /\ tasks[t].result = NotAvailableResult(tasks[t].name)
             /\ tasks[t].handlerCalls = <<>>
             /\ callCount[Looked(t).uid] = 0
    /\ \A context \in RegistryContexts, k \in NowhereCommands :
          /\ ~IsAvailableInContext(commands[k], context)
          /\ commands[k].uid \notin Listed(context)

\* The command with the empty list was executed twice in the bbs context,
\* both executes returned, and other commands are listed for that context.
C25_Witness ==
    \E t1, t2 \in ExecuteTasks :
        /\ Found(t1) /\ Looked(t1).contexts = {}
        /\ tasks[t1].context = "Q" /\ tasks[t1].pc = "returned"
        /\ Found(t2) /\ Looked(t2).contexts = {}
        /\ tasks[t2].context = "Q" /\ tasks[t2].pc = "returned"
        /\ t1 # t2
        /\ GetAvailableCommands(commands, "Q") # <<>>

\* C26: register of a name whose lowercased form is the key of a registered
\* command that has that name as its primary name, in whatever letter case
\* either was written, leaves the entry under that key as it is.
C26_FirstPrimaryNameWins ==
    [][(/\ CallReturns("register")
        /\ ~Incomplete(returned'.config)
        /\ ToLowerCase(returned'.config.name) \in DOMAIN commands
        /\ ToLowerCase(commands[ToLowerCase(returned'.config.name)].name)
              = ToLowerCase(returned'.config.name))
       => commands'[ToLowerCase(returned'.config.name)]
             = commands[ToLowerCase(returned'.config.name)]]_vars

\* The switchContext invocations that returned true.
SucceededSwitches ==
    { t \in SwitchTasks : /\ tasks[t].pc = "returned"
                          /\ tasks[t].result = [value |-> TRUE] }

\* C27: once a switchContext has succeeded, and however many have, exactly
\* one filesystem:directory-changed listener is subscribed, and a
\* directory-changed notification publishes exactly one context:changed,
\* with the id, the prompt and the instance of the context active then.
C27_OneDirectoryListener ==
    SucceededSwitches # {}
    => /\ Len(listeners["filesystem:directory-changed"]) = 1
       /\ currentContext # NULL
          => EmitDirectoryChanged(Machine).published
                = Append(published,
                         ContextChanged(InstanceId(currentContext),
                                        currentContext))

\* After three switches had succeeded the user changed the directory, and
\* the last notification is that of the listener.
C27_Witness ==
    /\ Cardinality(SucceededSwitches) >= 3
    /\ \E t \in ExecuteTasks :
          /\ tasks[t].name = "cd"
          /\ tasks[t].pc = "returned"
          /\ tasks[t].result.success = TRUE
          /\ \A s \in SucceededSwitches : s < t
    /\ Len(listeners["filesystem:directory-changed"]) = 1
    /\ published[Len(published)]
          = ContextChanged(InstanceId(currentContext), currentContext)

\* Invocation t of switchContext goes on after its onExit has resolved.
GoesOnAfterExit(t) ==
    /\ t \in SwitchTasks
    /\ tasks[t].pc = "onExit"
    /\ tasks'[t].pc \notin {"onExit", "rejected"}

\* C28: a switchContext that succeeds and was made while a context was
\* active has pushed that outgoing context, and nothing else, and it did so
\* after its onExit had resolved, onto the top of contextStack; a switch made
\* with no context active and a switch that failed (it returned false or
\* it was rejected) have pushed nothing.
C28_SwitchPushesTheOutgoing ==
    /\ [](\A t \in SwitchTasks :
            /\ (t \in SucceededSwitches /\ tasks[t].outgoing # NULL)
               => /\ tasks[t].pushed = <<tasks[t].outgoing>>
                  /\ tasks[t].onExitState = "resolved"
            /\ (\/ tasks[t].outgoing = NULL
                \/ tasks[t].pc = "rejected"
                \/ tasks[t].result = [value |-> FALSE])
               => tasks[t].pushed = <<>>)
    /\ [][\A t \in DOMAIN tasks :
             GoesOnAfterExit(t)
             => contextStack' = Append(contextStack, tasks[t].outgoing)]_vars

\* The contextId of the last context:changed notification, null if none.
RECURSIVE LastChangedId(_, _)
LastChangedId(events, i) ==
    IF i = 0 THEN NULL
    ELSE IF events[i].event = "context:changed" THEN events[i].contextId
    ELSE LastChangedId(events, i - 1)

\* Invocation t of switchContext enters the ssh context for a host that
\* SSHClient.onEnter does not know.
RefusedEntry(t) ==
    /\ t \in SwitchTasks
    /\ tasks[t].newContext = "sshClient"
    /\ tasks[t].onEnterState # "none"
    /\ tasks[t].params.address \notin KnownHosts

\* The last command the user issued is an ssh to such a host, and it ran.
LastInputIsRefusedSsh ==
    \E e \in ExecuteTasks :
        /\ tasks[e].by = "input"
        /\ \A other \in ExecuteTasks : other <= e
        /\ tasks[e].name = "ssh"
        /\ tasks[e].handlerCalls # <<>>
        /\ tasks[e].args # <<>>
        /\ tasks[e].args[1] \notin KnownHosts

BackInLocalShell ==
    /\ SwitchesInProgress = {}
    /\ currentContext = "localShell"
    /\ LastChangedId(published, Len(published)) = "localhost"
    /\ persisted = "localhost"

C30_OnceFiresOnce ==
    boot = "bus" => \A uid \in DOMAIN callCount : callCount[uid] <= 1

\* The executes of help without arguments.
HelpTasks ==
    { t \in ExecuteTasks : ToLowerCase(tasks[t].name) = "help"
                           /\ tasks[t].args = <<>> }

\* C31: after the bootstrap (CommandRegistry.initialize and the
\* registrations of the contexts, each with a help of its own), execute of
\* help without arguments runs the handler of the registry's global help,
\* once, in whatever context; and the listing it returns shows exactly the
\* names that getAvailableCommands returns for that context.
C31_HelpIsTheGlobalHelp ==
    \A t \in HelpTasks :
        /\ Found(t)
        /\ Looked(t).execute = GlobalHelp.execute
        /\ tasks[t].handlerCalls =
              <<[args |-> <<>>, context |-> tasks[t].context]>>
        /\ tasks[t].pc = "returned"
           => /\ tasks[t].result.success = TRUE
              /\ tasks[t].result.src = Looked(t).uid
              /\ tasks[t].result.output
                    = GetAvailableCommands(commands, tasks[t].context)

\* help has returned in the ssh context, where its listing is not empty and
\* differs from what the local shell would be shown.
C31_Witness ==
    \E t \in HelpTasks :
        /\ tasks[t].context = "sshClient"
        /\ tasks[t].pc = "returned"
        /\ tasks[t].result.output # <<>>
        /\ tasks[t].result.output # GetAvailableCommands(commands, "localShell")

\* C32: unregister(name) changes only entries that resolve to the command
\* being removed: every key that resolved to another command before the
\* call resolves to that same command after it.
C32_UnregisterKeepsOtherCommands ==
    [][(CallReturns("unregister")
        /\ ToLowerCase(returned'.name) \in DOMAIN commands)
       => \A k \in DOMAIN commands :
             commands[k].uid # commands[ToLowerCase(returned'.name)].uid
                => /\ k \in DOMAIN commands'
                   /\ commands'[k] = commands[k]]_vars

\* The switchContext and popContext invocations in progress.
StackCallsInProgress ==
    { t \in SwitchTasks \cup PopTasks :
        tasks[t].pc \notin {"returned", "rejected"} }

\* C33: whenever a context is active and no switchContext or popContext is
\* in progress, the current-context id of the progression store is the id
\* under which the active context is registered.
C33_PersistedIdIsTheActiveContext ==
    (currentContext # NULL /\ StackCallsInProgress = {})
    => MapGet(contexts, persisted) = currentContext

\* popContext p is the call the client makes next after its switchContext
\* s: the invocations between the two were started by the listener of
\* context:switch.
PopFollows(s, p) ==
    /\ s \in SwitchTasks /\ p \in PopTasks
    /\ s < p
    /\ tasks[s].by \in {"client", "setup"} /\ tasks[p].by = "client"
    /\ \A u \in (s + 1)..(p - 1) : tasks[u].by = "listener"

\* C34: from an active context A and a stack S, a switchContext that
\* succeeds followed by a popContext that returns true leaves A the active
\* context and the stack equal to S.
C34_SwitchThenPopIsARoundTrip ==
    [][\A s, p \in DOMAIN tasks :
          (/\ PopFollows(s, p)
           /\ tasks[s].outgoing # NULL
           /\ tasks[s].pc = "returned"
           /\ tasks[s].result = [value |-> TRUE]
           /\ PopReturnsNow(p))
          => /\ currentContext' = tasks[s].outgoing
             /\ contextStack' = tasks[s].stackAtCall]_vars

\* The hosts for which SSHClient.onEnter asks for authentication.
RequiresAuth(address) ==
    address \in {"mainframe.local", "research-facility.secure",
                 "data-vault.secure"}

\* The switchContext that entered the SSH context last before invocation t.
LastSshEntry(t) ==
    LET entries == { e \in SwitchTasks :
                       e < t /\ tasks[e].newContext = "sshClient" } IN
    CHOOSE e \in entries : \A f \in entries : f <= e

\* An auth command that succeeded after invocation e and before t.
AuthSucceededBetween(e, t) ==
    \E a \in ExecuteTasks :
        /\ e < a /\ a < t
        /\ ToLowerCase(tasks[a].name) = "auth"
        /\ tasks[a].pc = "returned"
        /\ tasks[a].result.success = TRUE

\* The guarded commands run in the SSH context.
GuardedTasks ==
    { t \in ExecuteTasks :
        /\ tasks[t].context = "sshClient"
        /\ Found(t)
        /\ Guarded(Looked(t).execute)
        /\ tasks[t].handlerCalls # <<>> }

\* C35: in an SSH session entered for a host that requires authentication,
\* a guarded command (scan, initiate, ...) returns 'Permission denied' as
\* long as no auth command has succeeded since that entry, whatever
\* happened in earlier SSH sessions.
C35_GuardedUntilAuthenticated ==
    \A t \in GuardedTasks :
        (/\ tasks[t].pc = "returned"
         /\ RequiresAuth(tasks[LastSshEntry(t)].params.address)
         /\ ~AuthSucceededBetween(LastSshEntry(t), t))
        => /\ tasks[t].result.success = FALSE
           /\ tasks[t].result.error
                 \in { <<"Permission denied.">>,
                       <<"Permission denied. Authentication required.">> }

\* The client of the bus emits in this step.
EmitsNow == boot = "bus" /\ published' # published

\* The callbacks subscribed to the event, in the order of subscription.
Subscribed == listeners[BusEvent]

\* C36: emit invokes every callback that is subscribed to the event when
\* emit is called exactly once, also when a callback throws or a once
\* wrapper unsubscribes during the delivery.  The callbacks that emit the
\* event themselves are left aside: their emit is a delivery of its own.
C36_EmitReachesEverySubscriber ==
    [][(/\ EmitsNow
        /\ \A i \in DOMAIN Subscribed : Subscribed[i].cb # "emits")
       => \A i \in DOMAIN Subscribed :
             callCount'[Subscribed[i].of] = callCount[Subscribed[i].of] + 1]_vars

\* The onEnter calls on context c that have not resolved: those of the
\* switchContext and popContext invocations that await them.
PendingEnters(c) ==
    { t \in SwitchTasks \cup PopTasks :
        tasks[t].newContext = c /\ tasks[t].onEnterState = "called" }

\* C37: the input handler dispatches no command against a context whose
\* onEnter has not resolved: when executeCommand passes the current context
\* to execute, no onEnter call on that context is pending.
C37_DispatchAfterOnEnterResolved ==
    [][\A e \in StartsNow :
          (/\ tasks'[e].kind = "execute"
           /\ tasks'[e].by = "input"
           /\ tasks'[e].context # NULL)
          => PendingEnters(tasks'[e].context) = {}]_vars

\* C6: after the bootstrap, for every context C and every command that
\* C.getCommands() supplies, execute of the name of the command while C is
\* the active context invokes the handler that C supplied.  (Stated for the
\* commands other than help: the registry registers a help of its own first,
\* command-registry.js lines 18-19.)
C6_ContextCommandsRunOwnHandlers ==
    \A t \in ExecuteTasks :
        tasks[t].context \in AppInstances
        => \A i \in DOMAIN GetCommands(tasks[t].context) :
              LET supplied == GetCommands(tasks[t].context)[i] IN
              (supplied.name = tasks[t].name /\ supplied.name # "help")
              => /\ Found(t)
                 /\ Looked(t).execute = supplied.execute
                 /\ Len(tasks[t].handlerCalls) = 1

====
